---- MODULE Spec2Model ----
(***************************************************************************)
(* A model of kp_pre_commit_hooks/gitops_values_validation.py: the layered *)
(* deep merge of values files, the schema header of a values file, and the *)
(* main loop that validates every service instance of a GitOps repository. *)
(*                                                                         *)
(* Five specifications share the module:                                   *)
(*   SpecMerge   deep_merge and ServiceInstanceConfig.configuration        *)
(*   SpecHeader  ValuesFile.header_schema_version / set_header_schema_...  *)
(*   SpecRun     the __main__ loop with download_json_schema and its cache *)
(*   SpecValidate  the same loop on one instance, its errors in detail     *)
(*   SpecChecks  the check methods behind the additionalChecks keyword     *)
(***************************************************************************)
EXTENDS Integers, Sequences, FiniteSets, TLC

VARIABLES
    \* ---- SpecMerge ----
    layers,         \* the three candidate values files of one instance
    mpc,            \* position of the merge scenario
    merged,         \* results computed so far
    \* ---- SpecHeader ----
    text,           \* the content of the values file on disk
    hsvCache,       \* the ValuesFile object's cached header_schema_version
    version,        \* the version the caller passes
    calls,          \* set_header_schema_version calls made on this object
    textBefore,     \* the file content before the last call
    textAfterFirst, \* the file content after the first call on this object
    objects,        \* ValuesFile objects created for the path so far
    \* ---- SpecRun ----
    instances,      \* the discovered service instances: chart and values files
    pc,             \* position of __main__
    cur,            \* index of the for loop's current instance (0 before the first)
    errors,         \* what validate_configuration returned for instance k
    errors_found,   \* __main__'s errors_found
    exitCode,       \* the process's exit code, NotExited while it runs
    cache,          \* the URLs functools.cache holds a result for
    results,        \* history: the error list returned for each instance
    log,            \* history: what the run did, in order
    \* ---- SpecChecks ----
    call,           \* the additional check invoked: its value and its validator
    cpc,            \* position of the check scenario
    yielded,        \* the errors the check method yielded
    called,         \* the methods validate_additional_checks called, in order
    \* ---- SpecUnique ----
    globbed,        \* the instance values files the glob of the repository finds
    upc,            \* position of the unique-names scenario
    unique_errors,  \* what validate_unique_service_names returned
    \* ---- SpecRepo ----
    chart_yaml,     \* Chart.yaml, Chart-dev.yaml, Chart-prod.yaml of a service directory
    values_headers, \* the header version of each values file that exists
    glob_order,     \* the environments of the instances, in the order of the glob
    runs,           \* runs of __main__ made on the directory
    last_run,       \* history: what the last run used, reported and exited with
    writes,         \* history: the headers written, in order
    \* ---- SpecPath ----
    path_stack,     \* the validator's _current_path
    descents,       \* the descend generators that are running, outermost first
    node,           \* the keys and indices from the root to the node visited
    suspended,      \* an error has been yielded to the consumer of iter_errors
    ppc             \* position of the validation

mergeVars == <<layers, mpc, merged>>

headerVars == <<text, hsvCache, version, calls, textBefore, textAfterFirst, objects>>

runVars == <<instances, pc, cur, errors, errors_found, exitCode, cache, results, log>>

checkVars == <<call, cpc, yielded, called>>

uniqueVars == <<globbed, upc, unique_errors>>

\* the variables of the scenarios on whole repositories
repoVars == <<chart_yaml, values_headers, glob_order, runs, last_run, writes>>

pathVars == <<path_stack, descents, node, suspended, ppc>>

laterVars == <<uniqueVars, repoVars, pathVars>>

vars == <<mergeVars, headerVars, runVars, checkVars, laterVars>>

(***************************************************************************)
(* YAML values.  A value is a scalar, a list or a mapping (a Python dict). *)
(* Every value is a record of the same shape so that any two values can be *)
(* compared: kind tells which field is meaningful.                         *)
(***************************************************************************)
EmptyDict == <<>>

Scalar(n) == [kind |-> "scalar", val |-> <<n>>, items |-> EmptyDict]

List(s) == [kind |-> "list", val |-> s, items |-> EmptyDict]

Dict(d) == [kind |-> "dict", val |-> <<>>, items |-> d]

\* isinstance(value, dict)
IsDict(value) == value.kind = "dict"

\* Bound: the scalars are 1..MaxScalar.
MaxScalar == 1

Atoms == {Scalar(n) : n \in 1..MaxScalar} \cup {List(<<1>>)}

\* All dicts whose keys are a subset of keys and whose values are in values.
DictsOver(keys, values) ==
    UNION {[ks -> values] : ks \in SUBSET keys}

InnerKeys == {"x", "y"}

\* What the key "a" of a values file may hold: an atom or a mapping of atoms.
NestedValues == Atoms \cup {Dict(d) : d \in DictsOver(InnerKeys, Atoms)}

\* The parsed content of a values file: "a" holds any value, "b" a scalar.
ValuesDicts ==
    {d \in DictsOver({"a", "b"}, NestedValues) :
        "b" \in DOMAIN d => d["b"] = Scalar(1)}

(***************************************************************************)
(* deep_merge of the sources: result = {}; for each source in order, for   *)
(* each key: recurse when the value and result.get(key) are both dicts,    *)
(* otherwise result[key] = value.                                          *)
(***************************************************************************)
\* result[key] = value  (adds the key when it is new)
SetItem(result, key, value) ==
    [k \in DOMAIN result \cup {key} |-> IF k = key THEN value ELSE result[k]]

RECURSIVE deep_merge(_)
RECURSIVE MergeItems(_, _, _)
RECURSIVE MutDeepMergeConcat(_)
RECURSIVE MutDeepMergeRight(_)

\* A merge that concatenates lists and keeps the earlier scalar.
MutDeepMergeConcat(sources) ==
    IF sources = <<>> THEN EmptyDict
    ELSE LET result == MutDeepMergeConcat(SubSeq(sources, 1, Len(sources) - 1))
             dictionary == sources[Len(sources)]
         IN [k \in DOMAIN result \cup DOMAIN dictionary |->
               IF k \notin DOMAIN dictionary THEN result[k]
               ELSE IF k \notin DOMAIN result THEN dictionary[k]
               ELSE IF IsDict(result[k]) /\ IsDict(dictionary[k])
                    THEN Dict(MutDeepMergeConcat(<<result[k].items, dictionary[k].items>>))
               ELSE IF result[k].kind = "list" /\ dictionary[k].kind = "list"
                    THEN List(result[k].val \o dictionary[k].val)
               ELSE dictionary[k]]

\* A merge that groups to the right: a, (b, c).
MutDeepMergeRight(sources) ==
    IF sources = <<>> THEN EmptyDict
    ELSE IF Len(sources) = 1 THEN sources[1]
    ELSE LET result == sources[1]
             dictionary == MutDeepMergeRight(Tail(sources))
         IN [k \in DOMAIN result \cup DOMAIN dictionary |->
               IF k \notin DOMAIN dictionary THEN result[k]
               ELSE IF k \notin DOMAIN result THEN dictionary[k]
               ELSE IF IsDict(result[k]) /\ IsDict(dictionary[k])
                    THEN Dict(MutDeepMergeRight(<<result[k].items, dictionary[k].items>>))
               ELSE dictionary[k]]

\* the inner loop "for key, value in dictionary.items()" over the keys left
MergeItems(result, dictionary, keys) ==
    IF keys = {} THEN result
    ELSE LET key == CHOOSE k \in keys : TRUE
             value == dictionary[key]
             new == IF IsDict(value) /\ key \in DOMAIN result /\ IsDict(result[key])
                    THEN Dict(deep_merge(<<result[key].items, value.items>>))
                    ELSE value
         IN MergeItems(SetItem(result, key, new), dictionary, keys \ {key})

\* the outer loop "for dictionary in sources", the last source merged last
deep_merge(sources) ==
    IF sources = <<>> THEN EmptyDict
    ELSE LET result == deep_merge(SubSeq(sources, 1, Len(sources) - 1))
             dictionary == sources[Len(sources)]
         IN MergeItems(result, dictionary, DOMAIN dictionary)

(***************************************************************************)
(* The values files of one service instance.  layers[i] is the candidate   *)
(* file i in the order values.yaml, values-<env>.yaml,                     *)
(* values-<env>-<instance>.yaml: whether it exists, and its parsed values. *)
(***************************************************************************)
CandidateFiles == <<1, 2, 3>>

Absent == [exists |-> FALSE, values |-> EmptyDict]

Present(d) == [exists |-> TRUE, values |-> d]

LayerFiles == {Absent} \cup {Present(d) : d \in ValuesDicts}

RECURSIVE FilterExisting(_, _)
\* [file for file in candidates if exists(file)]
FilterExisting(files, candidates) ==
    IF candidates = <<>> THEN <<>>
    ELSE (IF files[Head(candidates)].exists THEN <<Head(candidates)>> ELSE <<>>)
         \o FilterExisting(files, Tail(candidates))

\* Candidates tried in the order instance, env, base.
MutValuesFilesReversed(files) == FilterExisting(files, <<3, 2, 1>>)

\* Values files that are none when values.yaml does not exist.
MutValuesFilesBaseRequired(files) ==
    IF files[1].exists THEN FilterExisting(files, CandidateFiles) ELSE <<>>

\* ServiceInstanceConfig.values_files: the existing candidates, in order
values_files(files) == FilterExisting(files, CandidateFiles)

\* ValuesFile.merge_values: deep_merge of v.values for v in values_files
merge_values(files, names) ==
    deep_merge([i \in 1..Len(names) |-> files[names[i]].values])

\* ServiceInstanceConfig.configuration
configuration(files) == merge_values(files, values_files(files))

NoResults ==
    [configuration |-> EmptyDict, ab |-> EmptyDict, bc |-> EmptyDict,
     abc |-> EmptyDict, ab_c |-> EmptyDict, a_bc |-> EmptyDict]

\* The instance's merged configuration is computed.
Configuration ==
    /\ mpc = "start"
    /\ merged' = [merged EXCEPT !.configuration = configuration(layers)]
    /\ mpc' = "configured"
    /\ UNCHANGED <<layers, headerVars, runVars, checkVars, laterVars>>

\* deep_merge is applied to two mappings.
DeepMergeTwo ==
    /\ mpc = "configured"
    /\ merged' = [merged EXCEPT
                    !.ab = deep_merge(<<layers[1].values, layers[2].values>>),
                    !.bc = deep_merge(<<layers[2].values, layers[3].values>>)]
    /\ mpc' = "paired"
    /\ UNCHANGED <<layers, headerVars, runVars, checkVars, laterVars>>

\* deep_merge is applied to three mappings, at once and in two groupings.
DeepMergeThree ==
    /\ mpc = "paired"
    /\ merged' = [merged EXCEPT
                    !.abc = deep_merge(<<layers[1].values, layers[2].values, layers[3].values>>),
                    !.ab_c = deep_merge(<<merged.ab, layers[3].values>>),
                    !.a_bc = deep_merge(<<layers[1].values, merged.bc>>)]
    /\ mpc' = "done"
    /\ UNCHANGED <<layers, headerVars, runVars, checkVars, laterVars>>

MergeNext == Configuration \/ DeepMergeTwo \/ DeepMergeThree


(***************************************************************************)
(* Properties of the merge.                                                *)
(***************************************************************************)
RECURSIVE IsMergeOf(_, _, _)
\* R is A with B merged into it, key by key.
IsMergeOf(A, B, R) ==
    /\ DOMAIN R = DOMAIN A \cup DOMAIN B
    /\ \A k \in DOMAIN R :
         IF k \notin DOMAIN B THEN R[k] = A[k]
         ELSE IF k \in DOMAIN A /\ IsDict(A[k]) /\ IsDict(B[k])
              THEN IsDict(R[k]) /\ IsMergeOf(A[k].items, B[k].items, R[k].items)
         ELSE R[k] = B[k]

\* C1: deep_merge(A, B) holds, for every key k, B[k] merged recursively into
\* A[k] when both are mappings, B[k] outright when k is in B and one of the
\* two is not a mapping (lists and scalars replaced), A[k] when k is only in
\* A, and every key of B.
C1_DeepMergeTwoMappings ==
    mpc \in {"paired", "done"} =>
        IsMergeOf(layers[1].values, layers[2].values, merged.ab)

\* C1 witness: "a" holds a mapping on both sides, the nested key "x" a list
\* on both sides, "y" is new in B's mapping, and "b" is only in B.
C1_Witness ==
    /\ mpc = "paired"
    /\ "a" \in DOMAIN layers[1].values /\ "a" \in DOMAIN layers[2].values
    /\ "b" \notin DOMAIN layers[1].values /\ "b" \in DOMAIN layers[2].values
    /\ IsDict(layers[1].values["a"]) /\ IsDict(layers[2].values["a"])
    /\ DOMAIN layers[1].values["a"].items = {"x"}
    /\ DOMAIN layers[2].values["a"].items = {"x", "y"}
    /\ layers[1].values["a"].items["x"].kind = "list"
    /\ layers[2].values["a"].items["x"].kind = "list"
    /\ merged.ab = layers[2].values

\* The layers that exist, first to last.
ExistingLayers == SelectSeq(<<1, 2, 3>>, LAMBDA i : layers[i].exists)

\* The last existing layer that has the top-level key k (0 when none has).
LastLayerWith(k) ==
    LET S == {i \in 1..3 : layers[i].exists /\ k \in DOMAIN layers[i].values}
    IN IF S = {} THEN 0 ELSE CHOOSE i \in S : \A j \in S : j <= i

\* C2: the merged configuration of an instance is the deep merge of exactly
\* the layer files that exist, in the order values.yaml, values-<env>.yaml,
\* values-<env>-<instance>.yaml; an absent layer contributes no key, and a
\* value of a later layer overrides the earlier ones.
C2_ConfigurationMergesExistingLayers ==
    mpc # "start" =>
        /\ merged.configuration =
             deep_merge([i \in 1..Len(ExistingLayers) |-> layers[ExistingLayers[i]].values])
        /\ \A k \in {"a", "b"} :
             LET j == LastLayerWith(k)
             IN IF j = 0 THEN k \notin DOMAIN merged.configuration
                ELSE /\ k \in DOMAIN merged.configuration
                     /\ ~IsDict(layers[j].values[k]) =>
                            merged.configuration[k] = layers[j].values[k]

\* C2 witness: values-<env>.yaml is absent, the other two exist and give the
\* key "a" different values that are not mappings.
C2_Witness ==
    /\ mpc = "configured"
    /\ layers[1].exists /\ ~layers[2].exists /\ layers[3].exists
    /\ "a" \in DOMAIN layers[1].values /\ "a" \in DOMAIN layers[3].values
    /\ layers[1].values["a"].kind = "list"
    /\ layers[3].values["a"].kind = "scalar"
    /\ merged.configuration["a"] = layers[3].values["a"]

RECURSIVE Shadowed(_, _, _)
\* Some key, at any depth, holds a mapping in a and in c and not in b.
Shadowed(a, b, c) ==
    \E k \in DOMAIN a \cap DOMAIN b \cap DOMAIN c :
        /\ IsDict(a[k]) /\ IsDict(c[k])
        /\ \/ ~IsDict(b[k])
           \/ Shadowed(a[k].items, b[k].items, c[k].items)

\* C3 as stated: deep_merge(a, b, c) = deep_merge(deep_merge(a, b), c)
\* = deep_merge(a, deep_merge(b, c)) for all mappings a, b, c.
C3_Associative ==
    mpc = "done" => merged.abc = merged.ab_c /\ merged.abc = merged.a_bc

\* C3 amended: deep_merge(a, b, c) is the left fold
\* deep_merge(deep_merge(a, b), c) for all mappings; the right grouping
\* deep_merge(a, deep_merge(b, c)) equals it when no key holds a mapping in
\* a and c and something else in b.
C3_LeftFold ==
    mpc = "done" =>
        /\ merged.abc = merged.ab_c
        /\ ~Shadowed(layers[1].values, layers[2].values, layers[3].values) =>
               merged.abc = merged.a_bc

\* C3 witness: "a" holds a mapping in the first and third layer and a scalar
\* in the second, and the two groupings differ.
C3_Witness ==
    /\ mpc = "done"
    /\ \A i \in 1..3 : "a" \in DOMAIN layers[i].values
    /\ IsDict(layers[1].values["a"]) /\ IsDict(layers[3].values["a"])
    /\ layers[2].values["a"].kind = "scalar"
    /\ merged.abc = merged.ab_c
    /\ merged.abc # merged.a_bc

(***************************************************************************)
(* The schema header of a values file.  A file is a sequence of tokens:    *)
(*   NL      a newline                                                     *)
(*   SP      a space                                                       *)
(*   PREFIX  "# yaml-language-server: $schema=<SCHEMA_BASE_URL>/v"         *)
(*   SUFFIX  "/schema-platform-managed-chart.json"                         *)
(*   other   text without a slash ("1", "2": versions; "x": YAML text)     *)
(* SCHEMA_HEADER_REGEXP is  ^ *PREFIX[^/]+SUFFIX  with re.MULTILINE.       *)
(***************************************************************************)
NL == "NL"

SP == "SP"

PREFIX == "PREFIX"

SUFFIX == "SUFFIX"

\* the tokens that contain a slash: [^/] matches none of them
SlashTokens == {PREFIX, SUFFIX}

\* Optional[str]: None is no string of tokens of a file
None == <<"None">>

\* "^" under re.MULTILINE: the start of the text and after each newline
IsLineStart(content, i) == i = 1 \/ content[i - 1] = NL

\* " *": the first position from i on that holds no space
SkipSpaces(content, i) ==
    LET stops == {j \in i..Len(content) : content[j] # SP}
    IN IF stops = {} THEN Len(content) + 1
       ELSE CHOOSE j \in stops : \A h \in stops : j <= h

\* the position of PREFIX of a match that starts at i, or 0
MatchPrefix(content, i) ==
    LET j == SkipSpaces(content, i)
    IN IF IsLineStart(content, i) /\ j <= Len(content) /\ content[j] = PREFIX
       THEN j ELSE 0

\* the position of SUFFIX ending the match that starts at i, or 0:
\* "[^/]+" takes at least one token, newlines included, up to the first slash
MatchEnd(content, i) ==
    LET j == MatchPrefix(content, i)
        slashes == {k \in (j + 1)..Len(content) : content[k] \in SlashTokens}
        k == IF slashes = {} THEN 0
             ELSE CHOOSE x \in slashes : \A y \in slashes : x <= y
    IN IF j # 0 /\ k > j + 1 /\ content[k] = SUFFIX THEN k ELSE 0

\* the start positions of the matches of SCHEMA_HEADER_REGEXP
MatchStarts(content) == {i \in 1..Len(content) : MatchEnd(content, i) # 0}

\* SCHEMA_HEADER_REGEXP.search(content): the leftmost match, or 0
Search(content) ==
    LET starts == MatchStarts(content)
    IN IF starts = {} THEN 0 ELSE CHOOSE i \in starts : \A h \in starts : i <= h

\* ValuesFile.header_schema_version, read from the file: group "version"
\* of the first match, or None
header_schema_version(content) ==
    LET i == Search(content)
    IN IF i = 0 THEN None
       ELSE SubSeq(content, MatchPrefix(content, i) + 1, MatchEnd(content, i) - 1)

RECURSIVE SubFrom(_, _, _)
\* SCHEMA_HEADER_REGEXP.sub(header, content) from position i on: every match
\* is replaced, the text between the matches is kept
SubFrom(header, content, i) ==
    IF i > Len(content) THEN <<>>
    ELSE IF MatchEnd(content, i) # 0
         THEN header \o SubFrom(header, content, MatchEnd(content, i) + 1)
    ELSE <<content[i]>> \o SubFrom(header, content, i + 1)

Sub(header, content) == SubFrom(header, content, 1)

\* f"# yaml-language-server: $schema={SCHEMA_BASE_URL}/v{version}/schema-platform-managed-chart.json"
Header(v) == <<PREFIX>> \o v \o <<SUFFIX>>

\* ValuesFile.set_header_schema_version: the content written, given the
\* value hsv of self.header_schema_version
set_header_schema_version(content, hsv, v) ==
    IF hsv = v THEN content
    ELSE IF hsv = None THEN Header(v) \o <<NL>> \o content
    ELSE Sub(Header(v), content)

\* Bound: a file has at most MaxLines lines.
MaxLines == 3

\* Bound: set_header_schema_version is called at most MaxCalls times on one
\* ValuesFile object.
MaxCalls == 2

\* Bound: at most MaxObjects ValuesFile objects are created for the path.
MaxObjects == 2

\* The lines a file is made of.
LineShapes ==
    { <<"x">>,                          \* YAML text
      <<PREFIX, "1", SUFFIX>>,          \* a header of version 1
      <<PREFIX, "2", SUFFIX>>,          \* a header of version 2
      <<SP, PREFIX, "1", SUFFIX, "x">>, \* an indented header followed by text
      <<"x", PREFIX, "1", SUFFIX>>,     \* a header that does not start the line
      <<PREFIX, "1">>,                  \* a header cut after its version
      <<SUFFIX>> }                      \* the rest of a cut header

RECURSIVE JoinLines(_)
\* every line ends with a newline
JoinLines(ls) ==
    IF ls = <<>> THEN <<>> ELSE Head(ls) \o <<NL>> \o JoinLines(Tail(ls))

FileTexts ==
    {JoinLines(ls) : ls \in UNION {[1..n -> LineShapes] : n \in 0..MaxLines}}

\* the versions a caller passes
ArgVersions == {<<"1">>, <<"2">>}

NotCached == [cached |-> FALSE, value |-> None]

\* @cached_property: the first access reads the file, later ones do not
CachedHeaderSchemaVersion ==
    IF hsvCache.cached THEN hsvCache.value ELSE header_schema_version(text)

\* self.header_schema_version is read (as iter_schema_validation_errors does)
ReadHeaderSchemaVersion ==
    /\ objects > 0
    /\ ~hsvCache.cached
    /\ hsvCache' = [cached |-> TRUE, value |-> header_schema_version(text)]
    /\ UNCHANGED <<text, version, calls, textBefore, textAfterFirst, objects>>
    /\ UNCHANGED <<mergeVars, runVars, checkVars, laterVars>>

\* value_file.set_header_schema_version(version)
SetHeaderSchemaVersion ==
    /\ objects > 0
    /\ calls < MaxCalls
    /\ hsvCache' = [cached |-> TRUE, value |-> CachedHeaderSchemaVersion]
    /\ text' = set_header_schema_version(text, CachedHeaderSchemaVersion, version)
    /\ textBefore' = text
    /\ textAfterFirst' = IF calls = 0 THEN text' ELSE textAfterFirst
    /\ calls' = calls + 1
    /\ UNCHANGED <<version, objects>>
    /\ UNCHANGED <<mergeVars, runVars, checkVars, laterVars>>

\* ValuesFile(path): values_files builds new objects for the same files
NewValuesFile ==
    /\ objects > 0
    /\ objects < MaxObjects
    /\ calls > 0
    /\ hsvCache' = NotCached
    /\ calls' = 0
    /\ objects' = objects + 1
    /\ textBefore' = text
    /\ textAfterFirst' = text
    /\ UNCHANGED <<text, version>>
    /\ UNCHANGED <<mergeVars, runVars, checkVars, laterVars>>

HeaderNext == ReadHeaderSchemaVersion \/ SetHeaderSchemaVersion \/ NewValuesFile

\* The text with its first header replaced by header, the rest unchanged.
ReplaceFirst(header, content) ==
    LET i == Search(content)
    IN SubSeq(content, 1, i - 1) \o header
       \o SubSeq(content, MatchEnd(content, i) + 1, Len(content))

\* C4: calling set_header_schema_version(v) twice on the same ValuesFile
\* leaves the file as one call left it.
C4_SetHeaderIdempotent ==
    calls >= 2 => text = textAfterFirst

\* C5: one call of set_header_schema_version(v) on a new ValuesFile changes
\* the header only: without a header, the header line is put before the
\* unchanged content; with a header of another version, that header is
\* replaced in place and all the rest is kept; afterwards the header read
\* from the file is v.
C5_SetHeaderChangesOnlyHeader ==
    calls = 1 =>
        LET before == header_schema_version(textBefore)
        IN /\ before = None => text = Header(version) \o <<NL>> \o textBefore
           /\ (before # None /\ before # version) =>
                  text = ReplaceFirst(Header(version), textBefore)
           /\ header_schema_version(text) = version

(***************************************************************************)
(* Helm charts and their schema.  A version is <<major, minor, patch>>;    *)
(* NoVersion is Python's None.                                             *)
(***************************************************************************)
NoVersion == <<>>

PMC == "platform-managed-chart"

\* the versions a chart file or a header comment can name
Versions == {<<0, 1, 10>>, <<0, 1, 35>>, <<0, 1, 157>>, <<0, 2, 0>>}

\* the version json_schema compares with: "0.1.35"
MinSchemaVersion == <<0, 1, 35>>

Dep(name, v) == [name |-> name, version |-> v]

\* HelmChart.dependencies of the charts of the repository
Charts ==
    { <<>>, <<Dep("other", <<0, 2, 0>>)>>,
      <<Dep("other", <<0, 2, 0>>), Dep(PMC, <<0, 1, 10>>)>> }
    \cup {<<Dep(PMC, v)>> : v \in Versions}

\* HelmChart.get_dependency: the first dependency of that name, or None
get_dependency(dependencies, name) ==
    LET found == {i \in DOMAIN dependencies : dependencies[i].name = name}
    IN IF found = {} THEN <<>>
       ELSE <<dependencies[CHOOSE i \in found : \A j \in found : i <= j]>>

\* HelmChart.platform_managed_chart_version
platform_managed_chart_version(dependencies) ==
    LET platform_managed_chart == get_dependency(dependencies, PMC)
    IN IF platform_managed_chart # <<>>
       THEN platform_managed_chart[1].version ELSE NoVersion

\* semver.VersionInfo.compare: -1, 0 or 1, by major, then minor, then patch
SemverCompare(a, b) ==
    IF a[1] # b[1] THEN (IF a[1] < b[1] THEN -1 ELSE 1)
    ELSE IF a[2] # b[2] THEN (IF a[2] < b[2] THEN -1 ELSE 1)
    ELSE IF a[3] # b[3] THEN (IF a[3] < b[3] THEN -1 ELSE 1)
    ELSE 0

\* The threshold test with > in place of >=.
MutHasJsonSchemaStrict(dependencies) ==
    LET v == platform_managed_chart_version(dependencies)
    IN v # NoVersion /\ SemverCompare(v, MinSchemaVersion) > 0

\* HelmChart.json_schema: the condition under which the schema is downloaded
HasJsonSchema(dependencies) ==
    LET v == platform_managed_chart_version(dependencies)
    IN v # NoVersion /\ SemverCompare(v, MinSchemaVersion) >= 0

\* f"{SCHEMA_BASE_URL}/v{version}/schema-platform-managed-chart-strict.json"
SchemaUrl(v) == <<"SCHEMA_BASE_URL", "v", v, "schema-platform-managed-chart-strict.json">>

NoUrl == <<>>

\* the schema json_schema returns when nothing is downloaded: {}
EmptySchema == <<>>

\* the document served at url
SchemaAt(url) == <<"schema", url>>

\* HTTP status codes a read can answer
Statuses == {200, 403, 404, 500}

Returned(doc, read) == [raised |-> "none", doc |-> doc, read |-> read]

Raised(exception, read) == [raised |-> exception, doc |-> EmptySchema, read |-> read]

\* A download that treats access denied like a missing schema.
MutDownload403AsMissing(cached, url, status) ==
    IF url \in cached THEN Returned(SchemaAt(url), FALSE)
    ELSE IF status \in {403, 404} THEN Raised("MissingSchema", TRUE)
    ELSE IF status # 200 THEN Raised("HTTPError", TRUE)
    ELSE Returned(SchemaAt(url), TRUE)

\* A download without @cache.
MutDownloadNoCache(cached, url, status) ==
    IF status = 403 THEN Raised("UnauthorizedToDownloadSchema", TRUE)
    ELSE IF status = 404 THEN Raised("MissingSchema", TRUE)
    ELSE IF status # 200 THEN Raised("HTTPError", TRUE)
    ELSE Returned(SchemaAt(url), TRUE)

\* download_json_schema under @cache: a URL with a cached result is answered
\* without a read; otherwise requests.get answers status
download_json_schema(cached, url, status) ==
    IF url \in cached THEN Returned(SchemaAt(url), FALSE)
    ELSE IF status = 403 THEN Raised("UnauthorizedToDownloadSchema", TRUE)
    ELSE IF status = 404 THEN Raised("MissingSchema", TRUE)
    ELSE IF status # 200 THEN Raised("HTTPError", TRUE)
    ELSE Returned(SchemaAt(url), TRUE)

\* functools.cache keeps what the function returned, nothing it raised
CacheAfter(cached, url, outcome) ==
    IF outcome.raised = "none" THEN cached \cup {url} ELSE cached

\* HelmChart.json_schema
json_schema(dependencies, cached, status) ==
    IF HasJsonSchema(dependencies)
    THEN download_json_schema(cached,
             SchemaUrl(platform_managed_chart_version(dependencies)), status)
    ELSE Returned(EmptySchema, FALSE)

(***************************************************************************)
(* Validation of one instance.  An instance is its service name, its       *)
(* chart's dependencies, the header versions of its existing values files  *)
(* in layer order, the errors the validator's iter_errors yields for its   *)
(* merged configuration under a schema that constrains it (raw), and which *)
(* of its files, if any, is not YAML ("chart", "values" or "none").        *)
(* Messages are sequences of text tokens; the versions an f-string puts in *)
(* a message are kept in quoted, in the order of the placeholders.         *)
(***************************************************************************)
\* hint=None
NoHint == ""

\* jsonschema's ValidationError: message, json_path, schema.get("maxLength")
\* (0 when the failed schema has no maxLength)
ValidationError(message, json_path, maxLength) ==
    [class |-> "ValidationError", message |-> message, quoted |-> <<>>,
     json_path |-> json_path, maxLength |-> maxLength,
     file |-> 0, url |-> NoUrl, hint |-> NoHint]

\* SchemaValidationError(message, location, hint): the location is a values
\* file (its position among the existing files) or a schema URL
SchemaValidationError(message, quoted, file, url, hint) ==
    [class |-> "SchemaValidationError", message |-> message, quoted |-> quoted,
     json_path |-> "", maxLength |-> 0,
     file |-> file, url |-> url, hint |-> hint]

\* f"JSON schema version in header ({header}) does not match version in
\* Chart.yaml ({version})"
HeaderMessage ==
    <<"JSON schema version in header (", "{header_schema_version}",
      ") does not match version in Chart.yaml (", "{version}", ")">>

AutoFixHint ==
    "This pre-commit hook will auto-fix this issue. Please commit the values files changes."

\* f"Missing JSON schema for platform managed chart version {version} in
\* Chart.yaml"
MissingMessage ==
    <<"Missing JSON schema for platform managed chart version ", "{version}",
      " in Chart.yaml">>

\* the entries of IGNORED_VALIDATION_ERRORS for the services of the model
IGNORED_VALIDATION_ERRORS ==
    ("flows-staticdata-consumer" :>
        ("$.platform-managed-chart.serviceName" :>
            { <<"'flows-staticdata-consumer-commodities' ",
                "does not match the service folder name 'flows-staticdata-consumer'">>,
              <<"'flows-staticdata-consumer-commodities' ", "is too long",
                ", the maximum length is ", "36">> }))
    @@ ("maritime-news-strapi-api" :>
        ("$" :> { <<"Additional properties are not allowed ('extra' was unexpected)">> }))

\* enrich_error_message: a message that ends with "is too long", under a
\* schema with a maxLength, gets the maximum appended
enrich_error_message(error) ==
    IF /\ error.message # <<>>
       /\ error.message[Len(error.message)] = "is too long"
       /\ error.maxLength # 0
    THEN [error EXCEPT !.message =
             @ \o <<", the maximum length is ", ToString(error.maxLength)>>]
    ELSE error

\* An ignore filter that looks the message up under every path of the service.
MutIsIgnoredAnyPath(service_name, error) ==
    /\ service_name \in DOMAIN IGNORED_VALIDATION_ERRORS
    /\ \E json_path \in DOMAIN IGNORED_VALIDATION_ERRORS[service_name] :
         error.message \in IGNORED_VALIDATION_ERRORS[service_name][json_path]

\* is_ignored_error: the message is listed for the service and the path
is_ignored_error(service_name, error) ==
    LET known == service_name \in DOMAIN IGNORED_VALIDATION_ERRORS
    IN /\ known
       /\ error.json_path \in DOMAIN IGNORED_VALIDATION_ERRORS[service_name]
       /\ error.message \in IGNORED_VALIDATION_ERRORS[service_name][error.json_path]

RECURSIVE MutHeaderErrorsReversed(_, _, _)
\* A header check that reports the last layer first.
MutHeaderErrorsReversed(headers, v, i) ==
    IF i > Len(headers) THEN <<>>
    ELSE MutHeaderErrorsReversed(headers, v, i + 1)
         \o (IF headers[i] # v
             THEN <<SchemaValidationError(HeaderMessage, <<headers[i], v>>, i,
                                          NoUrl, AutoFixHint)>>
             ELSE <<>>)

RECURSIVE MutHeaderErrorsSkipAbsent(_, _, _)
\* A header check that lets a file without a header pass.
MutHeaderErrorsSkipAbsent(headers, v, i) ==
    IF i > Len(headers) THEN <<>>
    ELSE (IF headers[i] # v /\ headers[i] # NoVersion
          THEN <<SchemaValidationError(HeaderMessage, <<headers[i], v>>, i,
                                       NoUrl, AutoFixHint)>>
          ELSE <<>>)
         \o MutHeaderErrorsSkipAbsent(headers, v, i + 1)

RECURSIVE HeaderErrors(_, _, _)
\* iter_schema_validation_errors: one error per values file whose header
\* version differs from the chart's, from file i on
HeaderErrors(headers, v, i) ==
    IF i > Len(headers) THEN <<>>
    ELSE (IF headers[i] # v
          THEN <<SchemaValidationError(HeaderMessage, <<headers[i], v>>, i,
                                       NoUrl, AutoFixHint)>>
          ELSE <<>>)
         \o HeaderErrors(headers, v, i + 1)

iter_schema_validation_errors(inst) ==
    HeaderErrors(inst.headers, platform_managed_chart_version(inst.chart), 1)

\* The list comprehensions with the ignore filter dropped.
MutValidationErrorsUnfiltered(inst, doc) ==
    IF doc = EmptySchema THEN <<>>
    ELSE [i \in DOMAIN inst.raw |-> enrich_error_message(inst.raw[i])]

\* A validation that filters the errors as iter_errors yields them and
\* enriches those that are left.
MutValidationErrorsFilterFirst(inst, doc) ==
    IF doc = EmptySchema THEN <<>>
    ELSE LET keep(error) == ~is_ignored_error(inst.service_name, error)
             validation_errors == SelectSeq(inst.raw, keep)
         IN [i \in DOMAIN validation_errors |->
                enrich_error_message(validation_errors[i])]

\* raw_validation_errors, then validation_errors: the errors of iter_errors
\* enriched, then those that are not ignored, in the same order.  The empty
\* schema accepts every configuration.
ValidationErrors(inst, doc) ==
    IF doc = EmptySchema THEN <<>>
    ELSE LET raw_validation_errors ==
                 [i \in DOMAIN inst.raw |-> enrich_error_message(inst.raw[i])]
             keep(error) == ~is_ignored_error(inst.service_name, error)
         IN SelectSeq(raw_validation_errors, keep)

\* An except clause that goes on to the header check.
MutMissingSchemaThenHeaders(inst) ==
    LET v == platform_managed_chart_version(inst.chart)
    IN <<SchemaValidationError(MissingMessage, <<v>>, 0, SchemaUrl(v), NoHint)>>
       \o iter_schema_validation_errors(inst)

\* the except MissingSchema clause
MissingSchemaErrors(inst) ==
    LET v == platform_managed_chart_version(inst.chart)
    IN <<SchemaValidationError(MissingMessage, <<v>>, 0, SchemaUrl(v), NoHint)>>

\* validate_configuration: the list returned, or the exception that leaves
\* it.  self.validator is evaluated first (chart file, then the download),
\* then the configuration (values files), then the header check.
validate_configuration(inst, cached, status) ==
    IF inst.malformed = "chart"
    THEN [raised |-> "YAMLError", errors |-> <<>>]
    ELSE LET outcome == json_schema(inst.chart, cached, status)
         IN IF outcome.raised = "none"
            THEN IF inst.malformed = "values"
                 THEN [raised |-> "YAMLError", errors |-> <<>>]
                 ELSE [raised |-> "none",
                       errors |-> ValidationErrors(inst, outcome.doc)
                                  \o iter_schema_validation_errors(inst)]
            ELSE IF outcome.raised = "MissingSchema"
            THEN [raised |-> "none", errors |-> MissingSchemaErrors(inst)]
            ELSE [raised |-> outcome.raised, errors |-> <<>>]

\* sync_values_files_schema_header_version: the headers afterwards
sync_values_files_schema_header_version(inst) ==
    LET v == platform_managed_chart_version(inst.chart)
    IN IF v = NoVersion THEN inst
       ELSE [inst EXCEPT !.headers = [i \in DOMAIN inst.headers |-> v]]

\* errors_found after an instance, when the flag follows the last instance.
MutErrorsFoundLast(found, errs) == errs # <<>>

\* __main__: errors_found is set when an instance has errors, never reset
ErrorsFoundAfter(found, errs) == IF errs # <<>> THEN TRUE ELSE found

\* sys.exit(1 if errors_found else 0)
ExitCodeOf(found) == IF found THEN 1 ELSE 0

\* An access-denied exit code of its own.
MutFatalExitCode == 1 + 1

\* sys.exit(1) in the UnauthorizedToDownloadSchema handler
FatalExitCode == 1

\* the exit code of an interpreter ended by an uncaught exception
UncaughtExitCode == 1

NotExited == -1

\* Bound: the repository has at most MaxInstances service instances.
MaxInstances == 2

HeaderLists == {<<NoVersion>>, <<MinSchemaVersion>>, <<MinSchemaVersion, NoVersion>>}

\* errors iter_errors can yield: a name over its maxLength, a missing
\* property, a property the schema does not allow
TooLong ==
    ValidationError(<<"'flows-staticdata-consumer-commodities' ", "is too long">>,
                    "$.platform-managed-chart.serviceName", 36)

Required ==
    ValidationError(<<"'replicas' is a required property">>,
                    "$.platform-managed-chart.api", 0)

Additional ==
    ValidationError(<<"Additional properties are not allowed ('extra' was unexpected)">>,
                    "$", 0)

Instance(service_name, chart, headers, raw, malformed) ==
    [service_name |-> service_name, chart |-> chart, headers |-> headers,
     raw |-> raw, malformed |-> malformed]

\* instances whose files are YAML, each chart with a dependency
WellFormed ==
    {Instance("flows-staticdata-consumer", c, h, r, "none") :
        c \in Charts \ {<<>>}, h \in HeaderLists, r \in {<<>>, <<Required>>}}

\* instances with a Chart.yaml or a values file that is not YAML
Malformed ==
    {Instance("flows-staticdata-consumer", <<>>, <<NoVersion>>, <<>>, "chart")}
    \cup {Instance("flows-staticdata-consumer", <<Dep(PMC, v)>>,
                   <<MinSchemaVersion>>, <<>>, "values") :
            v \in {<<0, 1, 10>>, <<0, 1, 35>>}}

Instances == WellFormed \cup Malformed

\* Bound: iter_errors yields at most MaxRaw errors for one configuration.
MaxRaw == 2

\* the lists of errors iter_errors can yield
RawLists == UNION {[1..n -> {TooLong, Required, Additional}] : n \in 0..MaxRaw}

\* the headers of one to three existing values files
AllHeaderLists == UNION {[1..n -> {NoVersion, MinSchemaVersion}] : n \in 1..3}

\* more errors iter_errors can yield: the too-long name at another path, a
\* message that ends with "is too long" from a schema without maxLength, the
\* folder message as the table lists it, and as the check writes it
TooLongElsewhere ==
    ValidationError(<<"'flows-staticdata-consumer-commodities' ", "is too long">>,
                    "$.platform-managed-chart.services.api.serviceName", 36)

TooLongUnbounded ==
    ValidationError(<<"'flows-staticdata-consumer-commodities' ", "is too long">>,
                    "$.platform-managed-chart.serviceName", 0)

FolderListed ==
    ValidationError(<<"'flows-staticdata-consumer-commodities' ",
                      "does not match the service folder name 'flows-staticdata-consumer'">>,
                    "$.platform-managed-chart.serviceName", 0)

FolderMismatch ==
    ValidationError(<<"'flows-staticdata-consumer-commodities' ",
                      "does not match the service folder name 'flows-staticdata-consumer'",
                      " Must be either 'flows-staticdata-consumer' or 'flows-staticdata-consumer-<suffix>'">>,
                    "$.platform-managed-chart.serviceName", 0)

\* the lists of errors the ignore table is tried on
IgnoreRawLists ==
    UNION {[1..n -> {TooLong, TooLongElsewhere, TooLongUnbounded, FolderListed,
                     FolderMismatch, Additional, Required}] : n \in 0..MaxRaw}

\* instances of two services of the table and of one it does not know, with
\* a chart that has a schema and a header that is the chart's version
IgnoreInstances ==
    {Instance(n, <<Dep(PMC, MinSchemaVersion)>>, <<MinSchemaVersion>>, r, "none") :
        n \in {"flows-staticdata-consumer", "maritime-news-strapi-api",
               "other-service"},
        r \in IgnoreRawLists}

\* the instances whose validation is examined error by error
DetailedInstances ==
    {Instance(n, c, h, r, "none") :
        n \in {"flows-staticdata-consumer", "maritime-news-strapi-api"},
        c \in Charts, h \in AllHeaderLists, r \in RawLists}
    \cup IgnoreInstances

Event(op, inst, url, status) == [op |-> op, inst |-> inst, url |-> url, status |-> status]

\* for service_instance_config in iter_service_instances_config(): the next one
NextInstance ==
    /\ pc = "loop"
    /\ cur < Len(instances)
    /\ cur' = cur + 1
    /\ pc' = "checking"
    /\ UNCHANGED <<instances, errors, errors_found, exitCode, cache, results, log>>
    /\ UNCHANGED <<mergeVars, headerVars, checkVars, laterVars>>

\* what a validation adds to the log: the call, the download and the read
ValidationEvents(inst, cached, status) ==
    LET url == SchemaUrl(platform_managed_chart_version(inst.chart))
        outcome == json_schema(inst.chart, cached, status)
    IN <<Event("validate", cur, NoUrl, 0)>>
       \o (IF HasJsonSchema(inst.chart) THEN <<Event("download", cur, url, 0)>> ELSE <<>>)
       \o (IF outcome.read THEN <<Event("read", cur, url, status)>> ELSE <<>>)
       \o (IF outcome.raised = "none" /\ inst.malformed # "chart"
           THEN <<Event("schema", cur, outcome.doc, 0)>> ELSE <<>>)

\* errors = validator.validate_configuration(), the HTTP read answering status
ValidateConfiguration ==
    /\ pc = "checking"
    /\ \E status \in Statuses :
         LET inst == instances[cur]
             outcome == json_schema(inst.chart, cache, status)
             returned == validate_configuration(inst, cache, status)
         IN /\ cache' = (IF HasJsonSchema(inst.chart)
                         THEN CacheAfter(cache,
                                  SchemaUrl(platform_managed_chart_version(inst.chart)),
                                  outcome)
                         ELSE cache)
            /\ log' = log \o ValidationEvents(inst, cache, status)
            /\ IF returned.raised = "none"
               THEN /\ errors' = returned.errors
                    /\ results' = Append(results, returned.errors)
                    /\ pc' = "validated"
               ELSE /\ errors' = errors
                    /\ results' = results
                    /\ pc' = (IF returned.raised = "UnauthorizedToDownloadSchema"
                              THEN "unauthorized" ELSE "uncaught")
    /\ UNCHANGED <<instances, cur, errors_found, exitCode>>
    /\ UNCHANGED <<mergeVars, headerVars, checkVars, laterVars>>

\* if not errors: print PASSED
ReportPassed ==
    /\ pc = "validated"
    /\ errors = <<>>
    /\ errors_found' = ErrorsFoundAfter(errors_found, errors)
    /\ log' = Append(log, Event("passed", cur, NoUrl, 0))
    /\ pc' = "loop"
    /\ UNCHANGED <<instances, cur, errors, exitCode, cache, results>>
    /\ UNCHANGED <<mergeVars, headerVars, checkVars, laterVars>>

\* else: errors_found = True; print FAILED; display_errors(...)
ReportFailed ==
    /\ pc = "validated"
    /\ errors # <<>>
    /\ errors_found' = ErrorsFoundAfter(errors_found, errors)
    /\ log' = Append(log, Event("failed", cur, NoUrl, 0))
    /\ pc' = "sync"
    /\ UNCHANGED <<instances, cur, errors, exitCode, cache, results>>
    /\ UNCHANGED <<mergeVars, headerVars, checkVars, laterVars>>

\* A repair that runs as soon as validation returned errors, before they are
\* reported.
MutSyncBeforeReport ==
    /\ pc = "validated"
    /\ errors # <<>>
    /\ instances' = [instances EXCEPT
                       ![cur] = sync_values_files_schema_header_version(instances[cur])]
    /\ log' = Append(log, Event("sync", cur, NoUrl, 0))
    /\ pc' = "loop"
    /\ UNCHANGED <<cur, errors, errors_found, exitCode, cache, results>>
    /\ UNCHANGED <<mergeVars, headerVars, checkVars, laterVars>>

\* service_instance_config.sync_values_files_schema_header_version()
SyncHeaders ==
    /\ pc = "sync"
    /\ instances' = [instances EXCEPT
                       ![cur] = sync_values_files_schema_header_version(instances[cur])]
    /\ log' = Append(log, Event("sync", cur, NoUrl, 0))
    /\ pc' = "loop"
    /\ UNCHANGED <<cur, errors, errors_found, exitCode, cache, results>>
    /\ UNCHANGED <<mergeVars, headerVars, checkVars, laterVars>>

\* sys.exit(1 if errors_found else 0) after the last instance
Exit ==
    /\ pc = "loop"
    /\ cur = Len(instances)
    /\ exitCode' = ExitCodeOf(errors_found)
    /\ log' = Append(log, Event("exit", 0, NoUrl, 0))
    /\ pc' = "exited"
    /\ UNCHANGED <<instances, cur, errors, errors_found, cache, results>>
    /\ UNCHANGED <<mergeVars, headerVars, checkVars, laterVars>>

\* except UnauthorizedToDownloadSchema: print FATAL; sys.exit(1)
HandleUnauthorized ==
    /\ pc = "unauthorized"
    /\ exitCode' = FatalExitCode
    /\ log' = Append(log, Event("fatal", 0, NoUrl, 0))
    /\ pc' = "exited"
    /\ UNCHANGED <<instances, cur, errors, errors_found, cache, results>>
    /\ UNCHANGED <<mergeVars, headerVars, checkVars, laterVars>>

\* any other exception leaves __main__ uncaught: the interpreter ends
UncaughtException ==
    /\ pc = "uncaught"
    /\ exitCode' = UncaughtExitCode
    /\ log' = Append(log, Event("traceback", 0, NoUrl, 0))
    /\ pc' = "exited"
    /\ UNCHANGED <<instances, cur, errors, errors_found, cache, results>>
    /\ UNCHANGED <<mergeVars, headerVars, checkVars, laterVars>>

RunNext ==
    \/ NextInstance
    \/ ValidateConfiguration
    \/ ReportPassed
    \/ ReportFailed
    \/ SyncHeaders
    \/ Exit
    \/ HandleUnauthorized
    \/ UncaughtException

(***************************************************************************)
(* Properties of the run.                                                  *)
(***************************************************************************)
\* the positions of the log that hold an event op of instance i
EventsOf(op, i) == {p \in DOMAIN log : log[p].op = op /\ log[p].inst = i}

\* semantic-version order by weight, for versions with parts below 1000
Rank(v) == v[1] * 1000000 + v[2] * 1000 + v[3]

\* the chart of instance i declares platform-managed-chart at 0.1.35 or later
DeclaresSchemaVersion(i) ==
    \E d \in DOMAIN instances[i].chart :
        /\ instances[i].chart[d].name = PMC
        /\ Rank(instances[i].chart[d].version) >= Rank(<<0, 1, 35>>)

\* C6: the schema fetcher is called for a chart exactly when the chart
\* declares platform-managed-chart at a version >= 0.1.35; the URL fetched
\* has that version as its v<version> segment; otherwise the schema is the
\* empty object and nothing is read.
C6_FetchOnlyFromThreshold ==
    \A i \in 1..Len(instances) :
        (EventsOf("validate", i) # {} /\ instances[i].malformed # "chart") =>
            /\ EventsOf("download", i) # {} <=> DeclaresSchemaVersion(i)
            /\ \A p \in EventsOf("download", i) :
                 /\ log[p].url[2] = "v"
                 /\ \E d \in DOMAIN instances[i].chart :
                      /\ instances[i].chart[d].name = PMC
                      /\ log[p].url[3] = instances[i].chart[d].version
            /\ EventsOf("download", i) = {} =>
                 /\ EventsOf("read", i) = {}
                 /\ \E p \in EventsOf("schema", i) : log[p].url = EmptySchema

\* C6 witness: one instance at exactly 0.1.35 was fetched for, another at
\* 0.1.10 was validated without a fetch.
C6_Witness ==
    /\ pc = "exited"
    /\ Len(instances) = 2
    /\ platform_managed_chart_version(instances[1].chart) = <<0, 1, 35>>
    /\ platform_managed_chart_version(instances[2].chart) = <<0, 1, 10>>
    /\ EventsOf("download", 1) # {}
    /\ EventsOf("validate", 2) # {}
    /\ EventsOf("download", 2) = {}

\* the URLs a chart version can lead to
SchemaUrls == {SchemaUrl(v) : v \in Versions}

\* the reads of url, in the order they were made
ReadsOf(url) == {p \in DOMAIN log : log[p].op = "read" /\ log[p].url = url}

\* C7: within one run each schema URL is read at most once over HTTP,
\* whether the read succeeded or failed.
C7_OneReadPerUrl ==
    \A url \in SchemaUrls : Cardinality(ReadsOf(url)) <= 1

\* the positions of the reads that answered 403
Denied == {p \in DOMAIN log : log[p].op = "read" /\ log[p].status = 403}

\* C8: when a schema fetch answers 403 while instance k is validated, the
\* run aborts at once: nothing is validated, reported or repaired afterwards,
\* instance k gets no result, and the exit code is not 0.
C8_AccessDeniedAborts ==
    \A p \in Denied :
        /\ \A q \in DOMAIN log : q > p => log[q].op = "fatal"
        /\ cur = log[p].inst
        /\ Len(results) = log[p].inst - 1
        /\ pc \in {"unauthorized", "exited"}
        /\ pc = "exited" => exitCode # 0 /\ exitCode # NotExited

\* C8 witness: the run ended on a 403 with instances left to validate.
C8_Witness ==
    /\ pc = "exited"
    /\ \E p \in Denied : log[p].inst < Len(instances)

\* the run went through every instance and left by the sys.exit of the loop
EndedNormally ==
    /\ pc = "exited"
    /\ log[Len(log)].op = "exit"

\* C9: a run that was not aborted exits with 0 when validate_configuration
\* returned no error for any instance, and with 1 otherwise.
C9_ExitCodeReflectsErrors ==
    EndedNormally =>
        /\ Len(results) = Len(instances)
        /\ exitCode = IF \A i \in DOMAIN results : results[i] = <<>> THEN 0 ELSE 1

\* C9 witness: the first instance failed, the second passed, the exit code
\* is 1.
C9_Witness ==
    /\ EndedNormally
    /\ Len(results) = 2
    /\ results[1] # <<>>
    /\ results[2] = <<>>
    /\ exitCode = 1

\* the run was ended by the access-denied handler
EndedFatally ==
    /\ pc = "exited"
    /\ log[Len(log)].op = "fatal"

\* C10 as stated: the exit code of a run aborted by access denied is not 0
\* and differs from the code 1 of validation errors.
C10_FatalExitCodeDistinct ==
    EndedFatally => exitCode # 0 /\ exitCode # 1

\* C10 amended: the exit code of a run aborted by access denied is not 0;
\* it is 1, the code also used when validation errors are found.
C10_FatalExitCodeIsOne ==
    EndedFatally => exitCode # 0 /\ exitCode = 1

\* C10 witness: a run ended by the access-denied handler.
C10_Witness ==
    /\ EndedFatally
    /\ Denied # {}
    /\ exitCode = 1

\* the positions of the reads that answered 404
Missing == {p \in DOMAIN log : log[p].op = "read" /\ log[p].status = 404}

\* C11: when the schema fetch of an instance answers 404,
\* validate_configuration returns exactly one error for it, quoting the
\* chart's managed-chart version and located at the schema URL, with no
\* schema violation and no header error beside it; the run is not ended by
\* it and goes on to validate the next instance.
C11_MissingSchemaIsOneError ==
    \A p \in Missing :
        LET i == log[p].inst
        IN /\ Len(results) >= i
           /\ Len(results[i]) = 1
           /\ results[i][1].class = "SchemaValidationError"
           /\ results[i][1].message = MissingMessage
           /\ results[i][1].quoted =
                  <<platform_managed_chart_version(instances[i].chart)>>
           /\ results[i][1].url = log[p].url
           /\ results[i][1].url =
                  SchemaUrl(platform_managed_chart_version(instances[i].chart))
           /\ cur = i => pc \notin {"unauthorized", "uncaught"}
           /\ (pc = "exited" /\ i < Len(instances)) =>
                  EventsOf("validate", i + 1) # {}

\* C11 witness: the first of two instances has a violation and a header that
\* differs, its fetch answered 404, and the second was validated after it.
C11_Witness ==
    /\ pc = "exited"
    /\ Len(instances) = 2
    /\ \E p \in Missing : log[p].inst = 1
    /\ instances[1].raw # <<>>
    /\ Len(results) = 2
    /\ Len(results[1]) = 1
    /\ EventsOf("sync", 1) # {}
    /\ EventsOf("validate", 2) # {}

\* the positions of the reads that failed with neither 403 nor 404
Failed == {p \in DOMAIN log : log[p].op = "read" /\ log[p].status \notin {200, 403, 404}}

\* C12: a chart file or values file that is not YAML does not abort the
\* run: in a run ended by no fetch failure, the instance it belongs to has a
\* non-empty error list and every instance of the repository was validated.
C12_MalformedFileIsLocal ==
    (pc = "exited" /\ Denied = {} /\ Failed = {}) =>
        \A i \in 1..Len(instances) :
            instances[i].malformed # "none" =>
                /\ Len(results) = Len(instances)
                /\ results[i] # <<>>
                /\ \A j \in 1..Len(instances) : EventsOf("validate", j) # {}

\* C13: a schema fetch that fails with anything but 403 or 404 is fatal for
\* its instance only: the instance's fetch is not retried, the failure does
\* not leave the instance, and the instances after it are still validated.
C13_FetchFailureIsLocal ==
    \A p \in Failed :
        LET i == log[p].inst
        IN /\ Cardinality(EventsOf("read", i)) = 1
           /\ pc # "uncaught"
           /\ (pc = "exited" /\ i < Len(instances)) =>
                  EventsOf("validate", i + 1) # {}

\* every repair in the log comes right after the report of the errors of
\* the same instance, whose validation returned a non-empty list
RepairsFollowReports ==
    \A p \in DOMAIN log :
        log[p].op = "sync" =>
            /\ p > 1
            /\ log[p - 1].op = "failed"
            /\ log[p - 1].inst = log[p].inst
            /\ \E q \in EventsOf("validate", log[p].inst) : q < p - 1
            /\ Len(results) >= log[p].inst
            /\ results[log[p].inst] # <<>>

\* a step that changes a file of an instance is the repair step of the
\* current instance, taken after its errors were reported
FilesChangeOnlyInRepair ==
    instances' # instances =>
        /\ pc = "sync"
        /\ errors # <<>>
        /\ log[Len(log)].op = "failed"
        /\ log[Len(log)].inst = cur
        /\ Len(instances') = Len(instances)
        /\ \A j \in DOMAIN instances : j # cur => instances'[j] = instances[j]
        /\ instances'[cur].chart = instances[cur].chart

Violations(errs) == {a \in DOMAIN errs : errs[a].class = "ValidationError"}

HeaderErrorsOf(errs) == {a \in DOMAIN errs : errs[a].message = HeaderMessage}

\* the schema the validator of instance i was built with
SchemaOf(i) == log[CHOOSE p \in EventsOf("schema", i) : TRUE].url

\* the positions of inst.raw that survive the ignore table under schema doc
Survivors(inst, doc) ==
    IF doc = EmptySchema THEN {}
    ELSE {k \in DOMAIN inst.raw :
            ~is_ignored_error(inst.service_name, enrich_error_message(inst.raw[k]))}

\* the a-th smallest member of a set of positions
Nth(S, a) == CHOOSE k \in S : Cardinality({j \in S : j < k}) = a - 1

\* the fetch of the current instance answered 404
ShortCircuited == \E p \in Missing : log[p].inst = cur

\* C14: the list validate_configuration returns holds the schema violations
\* that survive the ignore filter first, in the order the validator met
\* them, and the header errors after them in layer order; no header error
\* precedes a schema violation.
C14_ViolationsThenHeaders ==
    pc = "validated" =>
        LET inst == instances[cur]
            kept == IF ShortCircuited THEN {} ELSE Survivors(inst, SchemaOf(cur))
            n == Cardinality(kept)
        IN /\ Violations(errors) = 1..n
           /\ \A a \in 1..n : errors[a] = enrich_error_message(inst.raw[Nth(kept, a)])
           /\ \A a, b \in DOMAIN errors :
                (a \in HeaderErrorsOf(errors) /\ b \in Violations(errors)) => b < a
           /\ \A a, b \in HeaderErrorsOf(errors) :
                a < b => errors[a].file < errors[b].file

\* C14 witness: two violations were met, the first is ignored for the
\* service, and two files have headers that differ; the list returned is the
\* second violation followed by the two header errors.
C14_Witness ==
    /\ pc = "validated"
    /\ Len(instances[cur].raw) = 2
    /\ Len(errors) = 3
    /\ errors[1] = instances[cur].raw[2]
    /\ errors[2].message = HeaderMessage
    /\ errors[3].message = HeaderMessage
    /\ errors[2].file < errors[3].file

\* for each values file of inst, one header error when its header differs
\* from the chart's version, none when it is the same; the error quotes both
\* versions and carries the auto-fix hint
HeaderErrorPerDifferingFile(inst, errs) ==
    LET v == platform_managed_chart_version(inst.chart)
    IN \A f \in DOMAIN inst.headers :
         LET of_file == {a \in HeaderErrorsOf(errs) : errs[a].file = f}
         IN /\ Cardinality(of_file) = (IF inst.headers[f] # v THEN 1 ELSE 0)
            /\ \A a \in of_file :
                 /\ errs[a].quoted = <<inst.headers[f], v>>
                 /\ errs[a].hint = AutoFixHint

\* C15 as stated: for every existing values file of an instance, validation
\* emits exactly one header error if the file's header version (absent
\* counts as a value) differs from the chart's managed-chart version and
\* none if they are equal, quoting both versions with the auto-fix hint.
C15_HeaderErrorPerFile ==
    pc = "validated" => HeaderErrorPerDifferingFile(instances[cur], errors)

\* C15 amended: the same, for every validation whose schema fetch did not
\* answer 404 (that one returns the missing-schema error alone); with or
\* without schema violations in the list.
C15_HeaderErrorPerFileUnlessMissing ==
    (pc = "validated" /\ ~ShortCircuited) =>
        /\ HeaderErrorPerDifferingFile(instances[cur], errors)
        /\ \A a \in DOMAIN errors : a \in Violations(errors) \/ a \in HeaderErrorsOf(errors)

\* C15 witness: a validation that found a schema violation, with one file
\* whose header is the chart's version and one file without a header.
C15_Witness ==
    /\ pc = "validated"
    /\ ~ShortCircuited
    /\ Violations(errors) # {}
    /\ \E f, g \in DOMAIN instances[cur].headers :
         /\ instances[cur].headers[f] = platform_managed_chart_version(instances[cur].chart)
         /\ instances[cur].headers[g] = NoVersion
         /\ platform_managed_chart_version(instances[cur].chart) # NoVersion
    /\ Cardinality(HeaderErrorsOf(errors)) = 1

(***************************************************************************)
(* The check methods behind the additionalChecks keyword.  A string is the *)
(* sequence of its pieces: a lowercase word, a digit, "-", "." or a        *)
(* character outside [a-z0-9.-]; no piece is the start of another, so two  *)
(* strings are equal, or one starts with the other, exactly when their     *)
(* sequences are.  None is Python's None.                                  *)
(***************************************************************************)
LowerWords == {"svc", "app", "private", "services", "ais", "listener",
               "nmea", "error", "station", PMC}

Digits == {"7"}

\* str.startswith
StartsWith(string, prefix) ==
    /\ Len(string) >= Len(prefix)
    /\ SubSeq(string, 1, Len(prefix)) = prefix

\* f"'{value}' does not match the service folder name '{folder_name}'"
\* f" Must be either '{folder_name}' or '{folder_name}-<suffix>'"
FolderMessage(value, folder_name) ==
    <<"'">> \o value \o <<"' does not match the service folder name '">>
    \o folder_name \o <<"'", " Must be either '">> \o folder_name
    \o <<"' or '">> \o folder_name \o <<"-<suffix>'">>

\* A folder rule that accepts any name starting with the folder name.
MutServiceNameAnyPrefix(folder_name, value) ==
    IF folder_name # value /\ ~StartsWith(value, folder_name)
    THEN <<ValidationError(FolderMessage(value, folder_name), "", 0)>>
    ELSE <<>>

\* validate_service_name_matches_service_folder: the errors yielded
validate_service_name_matches_service_folder(folder_name, value) ==
    IF folder_name # value /\ ~StartsWith(value, folder_name \o <<"-">>)
    THEN <<ValidationError(FolderMessage(value, folder_name), "", 0)>>
    ELSE <<>>

RECURSIVE ServiceKeyErrors(_, _, _)
\* for service_key in value: one error per key that breaks the folder rule
ServiceKeyErrors(folder_name, keys, i) ==
    IF i > Len(keys) THEN <<>>
    ELSE (IF folder_name # keys[i] /\ ~StartsWith(keys[i], folder_name \o <<"-">>)
          THEN <<ValidationError(FolderMessage(keys[i], folder_name), "", 0)>>
          ELSE <<>>)
         \o ServiceKeyErrors(folder_name, keys, i + 1)

\* validate_service_keys_match_service_folder: value is a mapping with its
\* keys in document order, or something else
validate_service_keys_match_service_folder(folder_name, value) ==
    IF ~IsDict(value) THEN <<>>
    ELSE ServiceKeyErrors(folder_name, value.keys, 1)

\* _get_current_path: the parts of _current_path that are not None
get_current_path(current_path) ==
    LET present(part) == part # None
    IN SelectSeq(current_path, present)

\* A resolution that prefers the declared serviceName to the path.
MutServiceNameDeclaredFirst(current_path, declared, service_group) ==
    LET path == get_current_path(current_path)
    IN IF declared # None /\ declared # <<>>
       THEN declared
       ELSE IF Len(path) > 2 /\ SubSeq(path, 1, 2) = <<<<PMC>>, <<"services">>>>
       THEN path[3]
       ELSE service_group

\* _get_current_service_name: the key under platform-managed-chart.services
\* the node is in, else the declared platform-managed-chart.serviceName when
\* it is truthy, else the service group
get_current_service_name(current_path, declared, service_group) ==
    LET path == get_current_path(current_path)
    IN IF Len(path) > 2 /\ SubSeq(path, 1, 2) = <<<<PMC>>, <<"services">>>>
       THEN path[3]
       ELSE IF declared # None /\ declared # <<>>
       THEN declared
       ELSE service_group

RECURSIVE SplitDots(_)
\* the parts of a string between its dots
SplitDots(string) ==
    LET dots == {i \in DOMAIN string : string[i] = "."}
    IN IF dots = {} THEN <<string>>
       ELSE LET d == CHOOSE i \in dots : \A j \in dots : i <= j
            IN <<SubSeq(string, 1, d - 1)>>
               \o SplitDots(SubSeq(string, d + 1, Len(string)))

\* [a-z][a-z0-9-]*  (the optional -[0-9]+ of the topic part is within it)
IsNamePart(part) ==
    /\ part # <<>>
    /\ part[1] \in LowerWords
    /\ \A i \in DOMAIN part : part[i] \in LowerWords \cup Digits \cup {"-"}

\* [a-z0-9]+
IsSuffixPart(part) ==
    /\ part # <<>>
    /\ \A i \in DOMAIN part : part[i] \in LowerWords \cup Digits

NoMatch == [matched |-> FALSE, serviceName |-> <<>>]

Match(serviceName) == [matched |-> TRUE, serviceName |-> serviceName]

\* TOPIC_NAME_REGEXP.match: no class of the pattern holds a dot, so the
\* parts between the dots are matched one by one; the optional private.
\* is tried first, then the match without it
TOPIC_NAME_REGEXP(string) ==
    LET parts == SplitDots(string)
        n == Len(parts)
    IN IF /\ n \in {3, 4}
          /\ parts[1] = <<"private">>
          /\ IsNamePart(parts[2])
          /\ IsNamePart(parts[3])
          /\ n = 4 => IsSuffixPart(parts[4])
       THEN Match(parts[2])
       ELSE IF /\ n \in {2, 3}
               /\ IsNamePart(parts[1])
               /\ IsNamePart(parts[2])
               /\ n = 3 => IsSuffixPart(parts[3])
       THEN Match(parts[1])
       ELSE NoMatch

\* f"topicName '{value}' it not compliant, it should contain the service
\* name '{service_name}'"
TopicMessage(value, service_name) ==
    <<"topicName '">> \o value
    \o <<"' it not compliant, it should contain the service name '">>
    \o service_name \o <<"'">>

\* A topic check that also reports names the pattern does not match.
MutTopicNameUnmatchedToo(current_path, declared, service_group, value) ==
    LET service_name == get_current_service_name(current_path, declared, service_group)
        match == TOPIC_NAME_REGEXP(value)
    IN IF match.serviceName \notin {service_name, service_group}
       THEN <<ValidationError(TopicMessage(value, service_name), "", 0)>>
       ELSE <<>>

\* A topic check that accepts the current service name only.
MutTopicNameCurrentOnly(current_path, declared, service_group, value) ==
    LET service_name == get_current_service_name(current_path, declared, service_group)
        match == TOPIC_NAME_REGEXP(value)
    IN IF match.matched /\ match.serviceName # service_name
       THEN <<ValidationError(TopicMessage(value, service_name), "", 0)>>
       ELSE <<>>

\* validate_topic_name_compliance: the errors yielded
validate_topic_name_compliance(current_path, declared, service_group, value) ==
    LET service_name == get_current_service_name(current_path, declared, service_group)
        match == TOPIC_NAME_REGEXP(value)
    IN IF match.matched /\ match.serviceName \notin {service_name, service_group}
       THEN <<ValidationError(TopicMessage(value, service_name), "", 0)>>
       ELSE <<>>

\* 2^30; a byte count is <<g, b>>, g * 2^30 + b bytes with b < 2^30,
\* so that the limits of the table are exact
GiB == 1073741824

\* a > b on byte counts
GreaterBytes(a, b) == a[1] > b[1] \/ (a[1] = b[1] /\ a[2] > b[2])

AisListenerNmea == <<"ais", "-", "listener", ".", "nmea">>

AisListenerErrorStation == <<"ais", "-", "listener", ".", "error", ".", "station">>

\* 697_932_185_600 = 650 * 2^30 and 536_870_912_000 = 500 * 2^30
ALLOWED_MAX_LOCAL_TOPIC_BYTES_BY_TOPIC_AND_ENV ==
    (AisListenerNmea :> ("prod" :> [max_limit |-> <<650, 0>>]))
    @@ (AisListenerErrorStation :> ("prod" :> [max_limit |-> <<500, 0>>]))

\* TABLE.get(topic_name, {}).get(topic_env, {}).get("max_limit")
MaxAllowedValues(topic_name, topic_env) ==
    IF topic_name \notin DOMAIN ALLOWED_MAX_LOCAL_TOPIC_BYTES_BY_TOPIC_AND_ENV
    THEN None
    ELSE IF topic_env \notin
              DOMAIN ALLOWED_MAX_LOCAL_TOPIC_BYTES_BY_TOPIC_AND_ENV[topic_name]
    THEN None
    ELSE ALLOWED_MAX_LOCAL_TOPIC_BYTES_BY_TOPIC_AND_ENV[topic_name][topic_env].max_limit

NotAllowedMessage(topic_name, topic_env) ==
    <<"maxLocalTopicBytes can only be used with allowed topics",
      " and topic '">> \o topic_name \o <<"' is not allowed for environment '",
      topic_env, "'.">>

ExceedsMessage(topic_name, topic_env) ==
    <<"maxLocalTopicBytes exceeds the allowed maximum of ",
      "{max_allowed_values}", " for topic '">> \o topic_name
    \o <<"' in environment '", topic_env, "'.">>

\* A limit that the value may not reach.
MutMaxBytesAtLeast(topic_env, value) ==
    LET topic_max_local_bytes == value.maxLocalTopicBytes
        topic_name == value.topicName
        max_allowed_values == MaxAllowedValues(topic_name, topic_env)
    IN IF topic_max_local_bytes = None THEN <<>>
       ELSE IF max_allowed_values = None \/ max_allowed_values = <<0, 0>>
       THEN <<ValidationError(NotAllowedMessage(topic_name, topic_env), "", 0)>>
       ELSE IF ~GreaterBytes(max_allowed_values, topic_max_local_bytes)
       THEN <<[ValidationError(ExceedsMessage(topic_name, topic_env), "", 0)
                  EXCEPT !.quoted = <<max_allowed_values>>]>>
       ELSE <<>>

\* validate_max_local_topic_bytes_compliance: the errors yielded; value is a
\* topic mapping, a key it does not hold reads as None
validate_max_local_topic_bytes_compliance(topic_env, value) ==
    LET topic_max_local_bytes == value.maxLocalTopicBytes
        topic_name == value.topicName
        max_allowed_values == MaxAllowedValues(topic_name, topic_env)
    IN IF topic_max_local_bytes = None THEN <<>>
       ELSE IF max_allowed_values = None \/ max_allowed_values = <<0, 0>>
       THEN <<ValidationError(NotAllowedMessage(topic_name, topic_env), "", 0)>>
       ELSE IF GreaterBytes(topic_max_local_bytes, max_allowed_values)
       THEN <<[ValidationError(ExceedsMessage(topic_name, topic_env), "", 0)
                  EXCEPT !.quoted = <<max_allowed_values>>]>>
       ELSE <<>>

\* the character U+0060 that the messages put around a variable's name
BACKTICK == "U+0060"

MoreInfo ==
    "More info at https://kpler.atlassian.net/l/cp/jb4uJQs3#Use-connection-information-in-environment-variables"

\* FORBIDDEN_ENVIRONMENT_VARIABLES, in the order of the dict: the variable
\* and the reason it is forbidden for
FORBIDDEN_ENVIRONMENT_VARIABLES ==
    << [env_variable |-> <<"KAFKA_APPLICATION_ID">>,
        forbidden_reason |-> <<"KAFKA_APPLICATION_ID is automatically set in your container and should not be overridden.", "\n", MoreInfo>>],
       [env_variable |-> <<"KAFKA_BOOTSTRAP_SERVERS">>,
        forbidden_reason |-> <<"KAFKA_BOOTSTRAP_SERVERS is automatically set in your container and should not be overridden.", "\n", MoreInfo>>],
       [env_variable |-> <<"SCHEMA_REGISTRY_URL">>,
        forbidden_reason |-> <<"SCHEMA_REGISTRY_URL is automatically set in your container and should not be overridden.", "\n", MoreInfo>>] >>

\* f"Environment variable {env_variable} is not allowed to be manually set",
\* the variable between two U+0060
ForbiddenMessage(env_variable) ==
    <<"Environment variable ", BACKTICK>> \o env_variable
    \o <<BACKTICK, " is not allowed to be manually set">>

\* the description of the error's schema: f"Remove {env_variable} from your
\* environment variables.\n{forbidden_reason}", the variable between two U+0060
ForbiddenDescription(entry) ==
    <<"Remove ", BACKTICK>> \o entry.env_variable
    \o <<BACKTICK, " from your environment variables.", "\n">>
    \o entry.forbidden_reason

\* the error yielded for an entry of the deny-list
ForbiddenError(entry) ==
    [ValidationError(ForbiddenMessage(entry.env_variable), "", 0)
        EXCEPT !.hint = ForbiddenDescription(entry)]

\* env_variable in value, for a mapping with the keys keys
HasKey(keys, key) == \E i \in DOMAIN keys : keys[i] = key

RECURSIVE MutForbiddenFirstOnly(_, _)
\* A deny-list check that stops at the first variable it finds.
MutForbiddenFirstOnly(keys, i) ==
    IF i > Len(FORBIDDEN_ENVIRONMENT_VARIABLES) THEN <<>>
    ELSE LET entry == FORBIDDEN_ENVIRONMENT_VARIABLES[i]
         IN IF HasKey(keys, entry.env_variable)
            THEN <<ForbiddenError(entry)>>
            ELSE MutForbiddenFirstOnly(keys, i + 1)

RECURSIVE ForbiddenErrors(_, _)
\* for env_variable, forbidden_reason in FORBIDDEN_ENVIRONMENT_VARIABLES.items()
ForbiddenErrors(keys, i) ==
    IF i > Len(FORBIDDEN_ENVIRONMENT_VARIABLES) THEN <<>>
    ELSE LET entry == FORBIDDEN_ENVIRONMENT_VARIABLES[i]
         IN (IF HasKey(keys, entry.env_variable)
             THEN <<ForbiddenError(entry)>>
             ELSE <<>>)
            \o ForbiddenErrors(keys, i + 1)

\* validate_forbidden_environment_variables: the errors yielded
validate_forbidden_environment_variables(value) ==
    IF ~IsDict(value) THEN <<>>
    ELSE ForbiddenErrors(value.keys, 1)

(***************************************************************************)
(* The dispatch of additionalChecks.  An identifier is the sequence of its  *)
(* pieces: words in lower case, capitalised words (one capital and the     *)
(* lower-case letters after it), the underscore, a digit, and a capital     *)
(* letter X that no lower-case letter follows.                              *)
(***************************************************************************)
CapitalisedWords ==
    {"Configuration", "Checks", "Topic", "Name", "Compliance", "Environment",
     "Variables", "Service", "Matches", "Folder", "Keys", "Match", "Local",
     "Bytes"}

IdentifierWords ==
    {"configuration", "additional", "checks", "topic", "name", "compliance",
     "forbidden", "environment", "variables", "service", "matches", "folder",
     "keys", "match", "max", "local", "bytes", "x"}

\* str.lower() of a piece
Lower(piece) ==
    CASE piece = "Configuration" -> "configuration"
      [] piece = "Checks" -> "checks"
      [] piece = "Topic" -> "topic"
      [] piece = "Name" -> "name"
      [] piece = "Compliance" -> "compliance"
      [] piece = "Environment" -> "environment"
      [] piece = "Variables" -> "variables"
      [] piece = "Service" -> "service"
      [] piece = "Matches" -> "matches"
      [] piece = "Folder" -> "folder"
      [] piece = "Keys" -> "keys"
      [] piece = "Match" -> "match"
      [] piece = "Local" -> "local"
      [] piece = "Bytes" -> "bytes"
      [] piece = "X" -> "x"
      [] OTHER -> piece

RECURSIVE FirstSub(_, _, _)
\* re.sub("(.)([A-Z][a-z]+)", r"\1_\2", name): an underscore before every
\* capitalised word that has a character before it which the match before
\* did not take (matches do not overlap: the last letter of a word that was
\* matched is not the (.) of the next match)
FirstSub(name, i, taken) ==
    IF i > Len(name) THEN <<>>
    ELSE IF name[i] \in CapitalisedWords /\ i > 1 /\ ~taken
         THEN <<"_", name[i]>> \o FirstSub(name, i + 1, TRUE)
         ELSE <<name[i]>> \o FirstSub(name, i + 1, FALSE)

RECURSIVE SecondSub(_, _)
\* re.sub("([a-z0-9])([A-Z])", r"\1_\2", name): an underscore between a
\* lower-case letter or digit and a capital
SecondSub(name, i) ==
    IF i > Len(name) THEN <<>>
    ELSE (IF /\ i > 1
             /\ name[i] \in CapitalisedWords \cup {"X"}
             /\ name[i - 1] \in IdentifierWords \cup CapitalisedWords \cup Digits
          THEN <<"_", name[i]>> ELSE <<name[i]>>)
         \o SecondSub(name, i + 1)

\* camel_to_snake: the two substitutions, then str.lower()
camel_to_snake(name) ==
    LET first == FirstSub(name, 1, FALSE)
        second == SecondSub(first, 1)
    IN [i \in DOMAIN second |-> Lower(second[i])]

\* the attributes of a ServiceInstanceConfigValidator whose name starts with
\* validate_: the name after validate_, the number of arguments the method
\* takes after self
ValidateMethods ==
    { [name |-> <<"configuration">>, arity |-> 0],
      [name |-> <<"additional", "_", "checks">>, arity |-> 4],
      [name |-> <<"service", "_", "name", "_", "matches", "_", "service", "_", "folder">>,
       arity |-> 2],
      [name |-> <<"service", "_", "keys", "_", "match", "_", "service", "_", "folder">>,
       arity |-> 2],
      [name |-> <<"topic", "_", "name", "_", "compliance">>, arity |-> 2],
      [name |-> <<"max", "_", "local", "_", "topic", "_", "bytes", "_", "compliance">>,
       arity |-> 2],
      [name |-> <<"forbidden", "_", "environment", "_", "variables">>, arity |-> 2] }

NoMethod == [name |-> <<>>, arity |-> 0]

\* getattr(self, f"validate_{camel_to_snake(check)}", None)
GetValidateMethod(check) ==
    LET found == {method \in ValidateMethods : method.name = camel_to_snake(check)}
    IN IF found = {} THEN NoMethod ELSE CHOOSE method \in found : TRUE

(***************************************************************************)
(* One call of a check method: the name of the check in the schema, the    *)
(* value it is applied to, and what the method reads of its validator: the *)
(* service name of the instance (the name of its folder, also its service  *)
(* group), its environment, _current_path, and the serviceName its         *)
(* configuration declares under platform-managed-chart (None if none).     *)
(***************************************************************************)
Call(check, value, service_name, env, current_path, declared) ==
    [check |-> check, value |-> value, service_name |-> service_name,
     env |-> env, current_path |-> current_path, declared |-> declared,
     additional_checks |-> <<>>]

\* a string value
Str(string) ==
    [kind |-> "str", string |-> string, keys |-> <<>>,
     topicName |-> None, maxLocalTopicBytes |-> None]

NoCall == Call("none", Str(<<>>), <<>>, "", <<>>, None)

\* Bound: the names checked against the folder have at most MaxNameLen pieces.
MaxNameLen == 3

NameStrings == UNION {[1..n -> {"svc", "app", "-"}] : n \in 0..MaxNameLen}

FolderNames == {<<"svc">>, <<"svc", "-", "app">>}

ServiceNameCalls ==
    {Call("serviceNameMatchesServiceFolder", Str(v), f, "dev", <<>>, None) :
        v \in NameStrings, f \in FolderNames}

ServiceKeys == {<<"svc">>, <<"svc", "-", "app">>, <<"app">>, <<"svc", "app">>}

\* a mapping with its keys in document order
Mapping(keys) ==
    [kind |-> "dict", string |-> <<>>, keys |-> keys,
     topicName |-> None, maxLocalTopicBytes |-> None]

\* a value that is not a mapping
NotMapping(kind) ==
    [kind |-> kind, string |-> <<>>, keys |-> <<>>,
     topicName |-> None, maxLocalTopicBytes |-> None]

\* what platform-managed-chart.services can hold
ServicesValues ==
    {NotMapping("scalar"), NotMapping("list"), Mapping(<<>>)}
    \cup {Mapping(<<k>>) : k \in ServiceKeys}
    \cup {Mapping(ks) : ks \in {pair \in ServiceKeys \X ServiceKeys : pair[1] # pair[2]}}

ServiceKeysCalls ==
    {Call("serviceKeysMatchServiceFolder", v, f, "dev", <<>>, None) :
        v \in ServicesValues, f \in FolderNames}

RECURSIVE JoinDots(_)
\* ".".join(parts)
JoinDots(parts) ==
    IF Len(parts) = 1 THEN parts[1]
    ELSE parts[1] \o <<".">> \o JoinDots(Tail(parts))

\* what stands between the dots of a topic name: the word private, names,
\* a number, a part with a character the pattern knows nowhere
TopicParts ==
    {<<"private">>, <<"svc">>, <<"app">>, <<"svc", "-", "app">>, <<"7">>, <<"X">>}

\* topic names of one to four parts
TopicNames == {JoinDots(parts) : parts \in UNION {[1..n -> TopicParts] : n \in 1..4}}

\* _current_path of the node a topic name is found at
CurrentPaths ==
    { <<>>,
      <<<<PMC>>, <<"services">>>>,
      <<<<PMC>>, <<"services">>, <<"app">>>>,
      <<<<PMC>>, None, <<"services">>, None, <<"svc", "-", "app">>, <<"app">>>>,
      <<<<PMC>>, <<"app">>, <<"svc", "-", "app">>>> }

\* the declared serviceName: none, the empty string, a name
DeclaredNames == {None, <<>>, <<"svc", "-", "app">>}

TopicNameCalls ==
    {Call("topicNameCompliance", Str(v), <<"svc">>, "dev", p, d) :
        v \in TopicNames, p \in CurrentPaths, d \in DeclaredNames}

\* a topic mapping: topicName and maxLocalTopicBytes, None for a key it
\* does not hold
Topic(topicName, maxLocalTopicBytes) ==
    [kind |-> "dict", string |-> <<>>, keys |-> <<>>,
     topicName |-> topicName, maxLocalTopicBytes |-> maxLocalTopicBytes]

\* byte counts at, just under and just over the limits of the table;
\* 700000000000 is the value of the repository's tests
ByteCounts ==
    {<<0, 0>>, <<0, 1>>, <<499, GiB - 1>>, <<500, 0>>, <<500, 1>>,
     <<649, GiB - 1>>, <<650, 0>>, <<650, 1>>, <<651, 994072576>>}

MaxLocalTopicBytesCalls ==
    {Call("maxLocalTopicBytesCompliance", Topic(t, b), <<"svc">>, e, <<>>, None) :
        t \in {None, AisListenerNmea, AisListenerErrorStation,
               <<"svc", ".", "app">>},
        b \in {None} \cup ByteCounts,
        e \in {"dev", "prod"}}

\* check_method(value, schema) raises: the method does not take two
\* arguments (TypeError), or it uses its value as a str or as a dict and the
\* value is not one (AttributeError)
MethodRaises(method, c) ==
    \/ method.arity # 2
    \/ /\ method.name = <<"service", "_", "name", "_", "matches", "_", "service", "_", "folder">>
       /\ c.value.kind # "str"
    \/ /\ method.name = <<"max", "_", "local", "_", "topic", "_", "bytes", "_", "compliance">>
       /\ c.value.kind # "dict"

\* what check_method(value, schema) yields
MethodErrors(method, c) ==
    CASE method.name = <<"service", "_", "name", "_", "matches", "_", "service", "_", "folder">> ->
            validate_service_name_matches_service_folder(c.service_name, c.value.string)
      [] method.name = <<"service", "_", "keys", "_", "match", "_", "service", "_", "folder">> ->
            validate_service_keys_match_service_folder(c.service_name, c.value)
      [] method.name = <<"topic", "_", "name", "_", "compliance">> ->
            validate_topic_name_compliance(c.current_path, c.declared,
                                           c.service_name, c.value.string)
      [] method.name = <<"max", "_", "local", "_", "topic", "_", "bytes", "_", "compliance">> ->
            validate_max_local_topic_bytes_compliance(c.env, c.value)
      [] method.name = <<"forbidden", "_", "environment", "_", "variables">> ->
            validate_forbidden_environment_variables(c.value)

RECURSIVE validate_additional_checks(_, _)
\* validate_additional_checks from the i-th identifier on: what it yields,
\* the methods it calls, and whether a call raised (the generator ends there)
validate_additional_checks(c, i) ==
    IF i > Len(c.additional_checks)
    THEN [yielded |-> <<>>, called |-> <<>>, raised |-> FALSE]
    ELSE LET check_method == GetValidateMethod(c.additional_checks[i])
         IN IF check_method = NoMethod
            THEN validate_additional_checks(c, i + 1)
            ELSE IF MethodRaises(check_method, c)
            THEN [yielded |-> <<>>, called |-> <<check_method.name>>, raised |-> TRUE]
            ELSE LET rest == validate_additional_checks(c, i + 1)
                 IN [yielded |-> MethodErrors(check_method, c) \o rest.yielded,
                     called |-> <<check_method.name>> \o rest.called,
                     raised |-> rest.raised]

\* the five identifiers the schema registers
RegisteredChecks ==
    { <<"service", "Name", "Matches", "Service", "Folder">>,
      <<"service", "Keys", "Match", "Service", "Folder">>,
      <<"topic", "Name", "Compliance">>,
      <<"max", "Local", "Topic", "Bytes", "Compliance">>,
      <<"forbidden", "Environment", "Variables">> }

\* the pieces of the identifiers tried
IdentifierPieces ==
    {"configuration", "additional", "Checks", "topic", "Topic", "Name",
     "Compliance", "_", "X", "7"}

\* Bound: an identifier tried has at most MaxIdentifierLen pieces.
MaxIdentifierLen == 3

\* the identifiers: an X is not followed by a word in lower case, with
\* which it would be a capitalised word
Identifiers ==
    {name \in UNION {[1..n -> IdentifierPieces] : n \in 0..MaxIdentifierLen} :
        \A i \in DOMAIN name :
            (name[i] = "X" /\ i < Len(name)) => name[i + 1] \notin IdentifierWords}

\* the additionalChecks arrays: one identifier, or one identifier before or
\* after a registered one
AdditionalChecksLists ==
    {<<check>> : check \in Identifiers}
    \cup {<<check, registered>> : check \in Identifiers,
              registered \in {<<"topic", "Name", "Compliance">>,
                              <<"forbidden", "Environment", "Variables">>}}
    \cup {<<registered, check>> : check \in Identifiers,
              registered \in {<<"topic", "Name", "Compliance">>}}

AdditionalChecksCalls ==
    {[Call("additionalChecks", Str(v), <<"svc">>, "dev", <<>>, None)
         EXCEPT !.additional_checks = list] :
        v \in {<<"svc", ".", "app">>, <<"app", ".", "svc">>},
        list \in AdditionalChecksLists}

\* the names an env mapping can hold: the three of the deny-list, one that
\* starts like one of them, one of the application
EnvNames ==
    {<<"KAFKA_APPLICATION_ID">>, <<"KAFKA_BOOTSTRAP_SERVERS">>,
     <<"SCHEMA_REGISTRY_URL">>, <<"KAFKA_APPLICATION_ID", "_", "2">>,
     <<"LOG_LEVEL">>}

\* Bound: an env mapping has at most MaxEnvKeys keys.
MaxEnvKeys == 3

\* the keys of a mapping: distinct names in document order
EnvKeyLists ==
    {keys \in UNION {[1..n -> EnvNames] : n \in 0..MaxEnvKeys} :
        \A i, j \in DOMAIN keys : i # j => keys[i] # keys[j]}

ForbiddenEnvironmentVariablesCalls ==
    {Call("forbiddenEnvironmentVariables", v, <<"svc">>, "dev", <<>>, None) :
        v \in {NotMapping("scalar"), NotMapping("list")}
               \cup {Mapping(keys) : keys \in EnvKeyLists}}

\* check_method(value, schema) for serviceNameMatchesServiceFolder
ValidateServiceNameMatchesServiceFolder ==
    /\ cpc = "start"
    /\ call.check = "serviceNameMatchesServiceFolder"
    /\ yielded' = validate_service_name_matches_service_folder(
                      call.service_name, call.value.string)
    /\ cpc' = "done"
    /\ called' = <<<<"service", "_", "name", "_", "matches", "_", "service", "_", "folder">>>>
    /\ UNCHANGED <<call, mergeVars, headerVars, runVars, laterVars>>

\* check_method(value, schema) for serviceKeysMatchServiceFolder
ValidateServiceKeysMatchServiceFolder ==
    /\ cpc = "start"
    /\ call.check = "serviceKeysMatchServiceFolder"
    /\ yielded' = validate_service_keys_match_service_folder(
                      call.service_name, call.value)
    /\ cpc' = "done"
    /\ called' = <<<<"service", "_", "keys", "_", "match", "_", "service", "_", "folder">>>>
    /\ UNCHANGED <<call, mergeVars, headerVars, runVars, laterVars>>

\* check_method(value, schema) for topicNameCompliance
ValidateTopicNameCompliance ==
    /\ cpc = "start"
    /\ call.check = "topicNameCompliance"
    /\ yielded' = validate_topic_name_compliance(
                      call.current_path, call.declared, call.service_name,
                      call.value.string)
    /\ cpc' = "done"
    /\ called' = <<<<"topic", "_", "name", "_", "compliance">>>>
    /\ UNCHANGED <<call, mergeVars, headerVars, runVars, laterVars>>

\* check_method(value, schema) for maxLocalTopicBytesCompliance
ValidateMaxLocalTopicBytesCompliance ==
    /\ cpc = "start"
    /\ call.check = "maxLocalTopicBytesCompliance"
    /\ yielded' = validate_max_local_topic_bytes_compliance(call.env, call.value)
    /\ cpc' = "done"
    /\ called' = <<<<"max", "_", "local", "_", "topic", "_", "bytes", "_", "compliance">>>>
    /\ UNCHANGED <<call, mergeVars, headerVars, runVars, laterVars>>

\* check_method(value, schema) for forbiddenEnvironmentVariables
ValidateForbiddenEnvironmentVariables ==
    /\ cpc = "start"
    /\ call.check = "forbiddenEnvironmentVariables"
    /\ yielded' = validate_forbidden_environment_variables(call.value)
    /\ cpc' = "done"
    /\ called' = <<<<"forbidden", "_", "environment", "_", "variables">>>>
    /\ UNCHANGED <<call, mergeVars, headerVars, runVars, laterVars>>

\* the additionalChecks keyword on a value: validate_additional_checks
ValidateAdditionalChecks ==
    /\ cpc = "start"
    /\ call.check = "additionalChecks"
    /\ LET result == validate_additional_checks(call, 1)
       IN /\ yielded' = result.yielded
          /\ called' = result.called
          /\ cpc' = IF result.raised THEN "raised" ELSE "done"
    /\ UNCHANGED <<call, mergeVars, headerVars, runVars, laterVars>>

ChecksNext ==
    \/ ValidateAdditionalChecks
    \/ ValidateForbiddenEnvironmentVariables
    \/ ValidateServiceNameMatchesServiceFolder
    \/ ValidateServiceKeysMatchServiceFolder
    \/ ValidateTopicNameCompliance
    \/ ValidateMaxLocalTopicBytesCompliance

(***************************************************************************)
(* Properties of the check methods.                                        *)
(***************************************************************************)
\* the call of check has returned
Done(check) == cpc = "done" /\ call.check = check

\* the allow-list has an entry for the topic in the environment
HasEntry(topic_name, topic_env) ==
    \/ topic_name = AisListenerNmea /\ topic_env = "prod"
    \/ topic_name = AisListenerErrorStation /\ topic_env = "prod"

\* the ceiling of that entry: 650 GiB for ais-listener.nmea, 500 GiB for
\* ais-listener.error.station
Ceiling(topic_name) ==
    IF topic_name = AisListenerNmea THEN <<650, 0>> ELSE <<500, 0>>

\* C17: the max-local-topic-bytes check yields no error when
\* maxLocalTopicBytes is not set; exactly one "can only be used with allowed
\* topics" error when it is set and the allow-list has no entry for the
\* topic and environment, whatever the value; exactly one "exceeds the
\* allowed maximum of <ceiling>" error when the entry exists and the value is
\* strictly greater than its ceiling; no error when the entry exists and the
\* value is at most the ceiling.
C17_MaxLocalTopicBytes ==
    Done("maxLocalTopicBytesCompliance") =>
        LET topic == call.value.topicName
            bytes == call.value.maxLocalTopicBytes
        IN IF bytes = None THEN yielded = <<>>
           ELSE IF ~HasEntry(topic, call.env)
           THEN /\ Len(yielded) = 1
                /\ yielded[1].message[1] =
                       "maxLocalTopicBytes can only be used with allowed topics"
           ELSE IF bytes[1] > Ceiling(topic)[1]
                   \/ (bytes[1] = Ceiling(topic)[1] /\ bytes[2] > Ceiling(topic)[2])
           THEN /\ Len(yielded) = 1
                /\ yielded[1].message[1] =
                       "maxLocalTopicBytes exceeds the allowed maximum of "
                /\ yielded[1].quoted = <<Ceiling(topic)>>
           ELSE yielded = <<>>

\* C17 witness: one byte over the ceiling of ais-listener.nmea in prod gives
\* the one "exceeds" error.
C17_Witness ==
    /\ Done("maxLocalTopicBytesCompliance")
    /\ call.value.topicName = AisListenerNmea
    /\ call.env = "prod"
    /\ call.value.maxLocalTopicBytes = <<650, 1>>
    /\ Len(yielded) = 1
    /\ yielded[1].quoted = <<<<650, 0>>>>

\* the string is (private.)? service . topic (. suffix)? for some service:
\* service and topic are names, the suffix is letters and digits
FitsPattern(string) ==
    \E private \in BOOLEAN, d1 \in DOMAIN string, d2 \in 1..(Len(string) + 1) :
        LET start == IF private THEN 3 ELSE 1
        IN /\ private => /\ Len(string) >= 2
                         /\ string[1] = "private"
                         /\ string[2] = "."
           /\ start < d1
           /\ d1 < d2
           /\ string[d1] = "."
           /\ IsNamePart(SubSeq(string, start, d1 - 1))
           /\ IsNamePart(SubSeq(string, d1 + 1, d2 - 1))
           /\ d2 <= Len(string) =>
                /\ string[d2] = "."
                /\ IsSuffixPart(SubSeq(string, d2 + 1, Len(string)))

\* C18: for a topic name that does not match the compliance pattern, the
\* topic-name check yields no "should contain the service name" error (it
\* yields nothing): a pattern mismatch and a service mismatch are never
\* both reported for one value.
C18_NoServiceErrorWithoutMatch ==
    (Done("topicNameCompliance") /\ ~FitsPattern(call.value.string)) =>
        yielded = <<>>

\* C18 witness: private.app.X does not match the pattern, names another
\* service than the current one, and the check yielded nothing.
C18_Witness ==
    /\ Done("topicNameCompliance")
    /\ call.value.string = <<"private", ".", "app", ".", "X">>
    /\ ~FitsPattern(call.value.string)
    /\ get_current_service_name(call.current_path, call.declared,
                                call.service_name) = <<"svc">>
    /\ yielded = <<>>

\* the service name of the node the check runs at
Resolved ==
    get_current_service_name(call.current_path, call.declared, call.service_name)

\* the service segment the pattern captured in the value
Embedded == TOPIC_NAME_REGEXP(call.value.string).serviceName

\* C19 as stated: for a topic name that matches the pattern, the check
\* yields an error if and only if the service segment of the name differs
\* from the resolved service name of the current node.
C19_ErrorIffNotResolvedName ==
    (Done("topicNameCompliance") /\ FitsPattern(call.value.string)) =>
        (yielded # <<>> <=> Embedded # Resolved)

\* C19 amended: for a topic name that matches the pattern, the check yields
\* an error, exactly one and naming the resolved service name, if and only
\* if the service segment of the name differs from the resolved service name
\* of the current node and from the service group of the instance.
C19_ErrorIffNeitherResolvedNorGroup ==
    (Done("topicNameCompliance") /\ FitsPattern(call.value.string)) =>
        /\ yielded # <<>> <=> (Embedded # Resolved /\ Embedded # call.service_name)
        /\ yielded # <<>> =>
             /\ Len(yielded) = 1
             /\ yielded[1].message = TopicMessage(call.value.string, Resolved)

\* C19 witness: under platform-managed-chart.services.app of the instance
\* svc, the topic svc.app names the service group and not the current
\* service; the check yielded nothing.
C19_Witness ==
    /\ Done("topicNameCompliance")
    /\ call.value.string = <<"svc", ".", "app">>
    /\ Resolved = <<"app">>
    /\ call.service_name = <<"svc">>
    /\ Embedded = <<"svc">>
    /\ yielded = <<>>

\* the name is the folder name, or the folder name, a "-" and anything
FolderRule(name, folder_name) ==
    \/ name = folder_name
    \/ /\ Len(name) > Len(folder_name)
       /\ \A i \in DOMAIN folder_name : name[i] = folder_name[i]
       /\ name[Len(folder_name) + 1] = "-"

\* C20: the service-name check yields an error for a declared name N if and
\* only if N is neither the folder name D nor a string starting with D
\* followed by "-"; the service-keys check applies the same rule to every
\* key of the mapping, yields exactly one error per offending key and none
\* for a value that is not a mapping.
C20_FolderNameRule ==
    /\ Done("serviceNameMatchesServiceFolder") =>
         /\ yielded # <<>> <=> ~FolderRule(call.value.string, call.service_name)
         /\ Len(yielded) <= 1
    /\ Done("serviceKeysMatchServiceFolder") =>
         IF call.value.kind # "dict" THEN yielded = <<>>
         ELSE LET keys == call.value.keys
                  offending == {i \in DOMAIN keys :
                                  ~FolderRule(keys[i], call.service_name)}
              IN /\ Len(yielded) = Cardinality(offending)
                 /\ \A i \in DOMAIN keys :
                      Cardinality({a \in DOMAIN yielded :
                          yielded[a].message =
                              FolderMessage(keys[i], call.service_name)})
                      = (IF i \in offending THEN 1 ELSE 0)

\* C20 witness: in the folder svc, a services mapping with the keys svc-app
\* and svcapp got one error, for svcapp.
C20_Witness ==
    /\ Done("serviceKeysMatchServiceFolder")
    /\ call.service_name = <<"svc">>
    /\ call.value.keys = <<<<"svc", "-", "app">>, <<"svc", "app">>>>
    /\ Len(yielded) = 1
    /\ yielded[1].message = FolderMessage(<<"svc", "app">>, <<"svc">>)

\* the variables of the deny-list
DenyList ==
    {<<"KAFKA_APPLICATION_ID">>, <<"KAFKA_BOOTSTRAP_SERVERS">>, <<"SCHEMA_REGISTRY_URL">>}

\* the hint fixed for a variable of the deny-list
HintOf(name) ==
    <<"Remove ", BACKTICK>> \o name
    \o <<BACKTICK, " from your environment variables.", "\n">>
    \o <<name[1] \o " is automatically set in your container and should not be overridden.",
         "\n", MoreInfo>>

\* the errors yielded that name the variable
ErrorsNaming(name) ==
    {a \in DOMAIN yielded : yielded[a].message = ForbiddenMessage(name)}

\* C21: the forbidden-environment-variables check yields exactly one error for
\* each deny-listed variable (KAFKA_APPLICATION_ID, KAFKA_BOOTSTRAP_SERVERS,
\* SCHEMA_REGISTRY_URL) that is a key of the environment mapping, carrying
\* that variable's fixed hint, and no error for any other key or for a value
\* that is not a mapping.
C21_OneErrorPerForbiddenVariable ==
    Done("forbiddenEnvironmentVariables") =>
        IF call.value.kind # "dict" THEN yielded = <<>>
        ELSE LET keys == {call.value.keys[i] : i \in DOMAIN call.value.keys}
             IN /\ \A name \in DenyList :
                     Cardinality(ErrorsNaming(name)) = (IF name \in keys THEN 1 ELSE 0)
                /\ \A a \in DOMAIN yielded :
                     \E name \in DenyList \cap keys :
                         /\ a \in ErrorsNaming(name)
                         /\ yielded[a].hint = HintOf(name)
                /\ Len(yielded) = Cardinality(DenyList \cap keys)

\* C21 witness: a mapping with two deny-listed variables and the variable
\* LOG_LEVEL got two errors.
C21_Witness ==
    /\ Done("forbiddenEnvironmentVariables")
    /\ call.value.keys = <<<<"SCHEMA_REGISTRY_URL">>, <<"LOG_LEVEL">>,
                           <<"KAFKA_APPLICATION_ID">>>>
    /\ Len(yielded) = 2
    /\ ErrorsNaming(<<"LOG_LEVEL">>) = {}

\* the array without the identifiers that are not registered
RegisteredOnly(additional_checks) ==
    SelectSeq(additional_checks, LAMBDA check : check \in RegisteredChecks)

\* C22: an identifier under additionalChecks that is not one of the five
\* registered checks is a no-op, whatever string it is: the dispatch raises
\* nothing, and it calls the methods and yields the errors of the registered
\* identifiers of the array only, as if the other identifiers were not there.
C22_UnregisteredIsNoOp ==
    (call.check = "additionalChecks" /\ cpc # "start") =>
        LET registered ==
                validate_additional_checks(
                    [call EXCEPT !.additional_checks = RegisteredOnly(@)], 1)
        IN /\ cpc = "done"
           /\ called = registered.called
           /\ yielded = registered.yielded

\* the message is listed in the ignore table under the service and the path
Listed(service_name, json_path, message) ==
    \/ /\ service_name = "flows-staticdata-consumer"
       /\ json_path = "$.platform-managed-chart.serviceName"
       /\ message \in
            { <<"'flows-staticdata-consumer-commodities' ",
                "does not match the service folder name 'flows-staticdata-consumer'">>,
              <<"'flows-staticdata-consumer-commodities' ", "is too long",
                ", the maximum length is ", "36">> }
    \/ /\ service_name = "maritime-news-strapi-api"
       /\ json_path = "$"
       /\ message = <<"Additional properties are not allowed ('extra' was unexpected)">>

\* the validation of the current instance ran its validator on a schema
Validated == pc = "validated" /\ ~ShortCircuited /\ SchemaOf(cur) # EmptySchema

\* the schema violations of the list returned, in order
ViolationsReturned == SelectSeq(errors, LAMBDA error : error.class = "ValidationError")

\* C23: a schema violation is dropped if and only if its exact message is
\* listed in the ignore table under the service name of the instance and the
\* document path of the violation; the same message at another path or for
\* another service, and a differing message at the same path, are kept.
C23_DroppedIffListed ==
    Validated =>
        LET inst == instances[cur]
            raw_validation_errors ==
                [a \in DOMAIN inst.raw |-> enrich_error_message(inst.raw[a])]
            kept(error) == ~Listed(inst.service_name, error.json_path, error.message)
        IN ViolationsReturned = SelectSeq(raw_validation_errors, kept)

\* C23 witness: the too-long name was met at the listed path and at another
\* path of the listed service; the first is dropped and the second returned.
C23_Witness ==
    /\ Validated
    /\ instances[cur].service_name = "flows-staticdata-consumer"
    /\ instances[cur].raw = <<TooLong, TooLongElsewhere>>
    /\ Len(ViolationsReturned) = 1
    /\ ViolationsReturned[1].json_path = TooLongElsewhere.json_path

\* the message after enrichment: the maximum length appended once to a
\* message that ends with "is too long" under a schema with a maxLength
Enriched(error) ==
    IF error.message[Len(error.message)] = "is too long" /\ error.maxLength > 0
    THEN error.message \o <<", the maximum length is ", ToString(error.maxLength)>>
    ELSE error.message

\* C29: every violation whose message ends with "is too long" and whose
\* schema has a maxLength gets ", the maximum length is <maxLength>" appended
\* exactly once and every other message is unchanged; the enrichment comes
\* before the ignore filter, so the table is matched against the enriched
\* message.
C29_EnrichedThenFiltered ==
    Validated =>
        LET inst == instances[cur]
            kept(error) ==
                ~is_ignored_error(inst.service_name,
                                  [error EXCEPT !.message = Enriched(error)])
            validation_errors == SelectSeq(inst.raw, kept)
        IN /\ Len(ViolationsReturned) = Len(validation_errors)
           /\ \A a \in DOMAIN validation_errors :
                /\ ViolationsReturned[a].message = Enriched(validation_errors[a])
                /\ ViolationsReturned[a].json_path = validation_errors[a].json_path

\* C29 witness: the too-long name was met at the listed path once under a
\* schema without maxLength and once under maxLength 36; the first is
\* returned as it was, the second is enriched and then found in the table.
C29_Witness ==
    /\ Validated
    /\ instances[cur].service_name = "flows-staticdata-consumer"
    /\ instances[cur].raw = <<TooLongUnbounded, TooLong>>
    /\ Len(ViolationsReturned) = 1
    /\ ViolationsReturned[1].message = TooLongUnbounded.message

\* the entries of the current path: the parts of the stack that are present
PathEntries == SelectSeq(call.current_path, LAMBDA part : part # None)

\* the node is under platform-managed-chart.services.<name>
UnderService ==
    /\ Len(PathEntries) > 2
    /\ PathEntries[1] = <<PMC>>
    /\ PathEntries[2] = <<"services">>

\* the configuration declares a non-empty platform-managed-chart.serviceName
DeclaresServiceName == call.declared # None /\ Len(call.declared) > 0

\* C28: the service name the topic check resolves for the current node, the
\* one its error names, is the third entry of the current path when the path
\* has more than two entries and starts with platform-managed-chart,
\* services; otherwise the declared platform-managed-chart.serviceName when
\* there is a non-empty one; otherwise the service group of the instance.
C28_ServiceNamePriority ==
    (Done("topicNameCompliance") /\ yielded # <<>>) =>
        yielded[1].message =
            TopicMessage(call.value.string,
                         CASE UnderService -> PathEntries[3]
                           [] ~UnderService /\ DeclaresServiceName -> call.declared
                           [] OTHER -> call.service_name)

\* C28 witness: a node under platform-managed-chart.services.app of an
\* instance that declares the serviceName svc-app; the error names app.
C28_Witness ==
    /\ Done("topicNameCompliance")
    /\ UnderService
    /\ DeclaresServiceName
    /\ PathEntries[3] # call.declared
    /\ yielded # <<>>
    /\ yielded[1].message = TopicMessage(call.value.string, PathEntries[3])

InstanceValuesFile(application_dir, service_dir, env, instance) ==
    [parents |-> <<service_dir, application_dir>>,
     stem |-> <<"values", "-", env, "-">> \o instance]

\* ServiceInstanceConfig(application_name, service_name, env, instance, ...)
ServiceInstanceConfig(application_name, service_name, env, instance) ==
    [application_name |-> application_name, service_name |-> service_name,
     env |-> env, instance |-> instance]

\* A discovery that takes the application from the service directory.
MutIterApplicationIsService(found) ==
    [i \in DOMAIN found |->
        ServiceInstanceConfig(found[i].parents[1], found[i].parents[1],
                              found[i].stem[3],
                              SubSeq(found[i].stem, 5, Len(found[i].stem)))]

\* GitOpsRepository.iter_service_instances_config: application_name is
\* parent.parent.name, service_name is parent.name, and
\* _, env, instance = stem.split("-", maxsplit=2)
iter_service_instances_config(found) ==
    [i \in DOMAIN found |->
        ServiceInstanceConfig(found[i].parents[2], found[i].parents[1],
                              found[i].stem[3],
                              SubSeq(found[i].stem, 5, Len(found[i].stem)))]

ApplicationNames == {"app1", "app2", "app3"}

\* the place of an application name in alphabetical order
AlphabeticalRank(name) ==
    CASE name = "app1" -> 1 [] name = "app2" -> 2 [] name = "app3" -> 3

RECURSIVE Sorted(_)
\* the names of a set in alphabetical order
Sorted(names) ==
    IF names = {} THEN <<>>
    ELSE LET first == CHOOSE n \in names :
                         \A o \in names : AlphabeticalRank(n) <= AlphabeticalRank(o)
         IN <<first>> \o Sorted(names \ {first})

RECURSIVE JoinComma(_)
\* ", ".join(names)
JoinComma(names) ==
    IF names = <<>> THEN <<>>
    ELSE IF Len(names) = 1 THEN names
    ELSE <<names[1], ", ">> \o JoinComma(Tail(names))

\* the error for a service name found under several applications
UniqueServiceNameError(service_name, applications) ==
    [service_name |-> service_name,
     message |-> <<"Service names must be unique across all applications", ": ",
                   service_name, " ">> \o JoinComma(Sorted(applications))]

RECURSIVE UniqueErrors(_, _)
\* one error for each service name of names that several applications have
UniqueErrors(configs, names) ==
    IF names = <<>> THEN <<>>
    ELSE LET applications ==
                 {configs[i].application_name :
                     i \in {j \in DOMAIN configs : configs[j].service_name = Head(names)}}
         IN (IF Cardinality(applications) > 1
             THEN <<UniqueServiceNameError(Head(names), applications)>>
             ELSE <<>>)
            \o UniqueErrors(configs, Tail(names))

\* the service names of the instances, each once, in the order met
RECURSIVE ServiceNamesMet(_, _)
ServiceNamesMet(configs, i) ==
    IF i > Len(configs) THEN <<>>
    ELSE (IF \E j \in 1..(i - 1) : configs[j].service_name = configs[i].service_name
          THEN <<>> ELSE <<configs[i].service_name>>)
         \o ServiceNamesMet(configs, i + 1)

\* validate_unique_service_names: the instances grouped by service name
validate_unique_service_names(configs) ==
    UniqueErrors(configs, ServiceNamesMet(configs, 1))

\* Bound: the glob finds at most MaxFound files.
MaxFound == 3

\* the files a repository can hold: three applications, two service names,
\* two instances of dev, one of them with a "-" in its name
RepositoryFiles ==
    {InstanceValuesFile(a, n, "dev", i) :
        a \in ApplicationNames, n \in {"service1", "unique-service"},
        i \in {<<"instance1">>, <<"eu", "-", "1">>}}

\* what the glob returns: distinct files, in any order
Globs ==
    {found \in UNION {[1..n -> RepositoryFiles] : n \in 0..MaxFound} :
        \A i, j \in DOMAIN found : i # j => found[i] # found[j]}

\* errors = repo.validate_unique_service_names()
ValidateUniqueServiceNames ==
    /\ upc = "start"
    /\ unique_errors' =
           validate_unique_service_names(iter_service_instances_config(globbed))
    /\ upc' = "done"
    /\ UNCHANGED <<globbed, mergeVars, headerVars, runVars, checkVars, repoVars,
                   pathVars>>

UniqueNext == ValidateUniqueServiceNames

\* the applications that have a values file of the service in the repository
ApplicationsOf(service_name) ==
    {globbed[i].parents[2] : i \in {j \in DOMAIN globbed : globbed[j].parents[1] = service_name}}

\* the part of a message after its service name: the applications listed
ApplicationsListed(message) ==
    LET names == SubSeq(message, 5, Len(message))
    IN SelectSeq(names, LAMBDA piece : piece # ", ")

\* C24: validate_unique_service_names returns exactly one error for each
\* service name found under more than one application and none for a service
\* name under a single application, however many instances it has; the
\* message has the sentence 'Service names must be unique across all
\* applications' and lists the applications of the name, each once, in
\* alphabetical order.
C24_OneErrorPerSharedServiceName ==
    upc = "done" =>
        \A service_name \in {"service1", "unique-service"} :
            LET of_name == {e \in DOMAIN unique_errors :
                              unique_errors[e].service_name = service_name}
                applications == ApplicationsOf(service_name)
            IN /\ Cardinality(of_name) = (IF Cardinality(applications) > 1 THEN 1 ELSE 0)
               /\ \A e \in of_name :
                    LET listed == ApplicationsListed(unique_errors[e].message)
                    IN /\ unique_errors[e].message[1] =
                            "Service names must be unique across all applications"
                       /\ unique_errors[e].message[3] = service_name
                       /\ {listed[i] : i \in DOMAIN listed} = applications
                       /\ \A i, j \in DOMAIN listed :
                            i < j => AlphabeticalRank(listed[i]) < AlphabeticalRank(listed[j])

\* C24 witness: the glob met service1 under app2 first and under app1 after
\* it, and unique-service twice under app1; the one error lists app1, app2.
C24_Witness ==
    /\ upc = "done"
    /\ Len(globbed) = 3
    /\ globbed[1].parents = <<"service1", "app2">>
    /\ globbed[2].parents = <<"service1", "app1">>
    /\ globbed[3].parents = <<"unique-service", "app1">>
    /\ Len(unique_errors) = 1
    /\ ApplicationsListed(unique_errors[1].message) = <<"app1", "app2">>

(***************************************************************************)
(* Runs of __main__ on one service directory.  The directory holds         *)
(* Chart.yaml and perhaps Chart-dev.yaml and Chart-prod.yaml, the values   *)
(* files values.yaml, values-<env>.yaml and values-<env>-i.yaml, and one   *)
(* instance i for each environment whose instance file exists.  The schema *)
(* server answers every read and no configuration violates its schema, so  *)
(* the only errors are those of the header check.                          *)
(***************************************************************************)
\* the parsed content of a chart file that has the keys name, version and
\* dependencies
ChartFile(name, chart_version, dependencies) ==
    [key \in {"name", "version", "dependencies"} |->
        CASE key = "name" -> Scalar(name)
          [] key = "version" -> Scalar(chart_version)
          [] key = "dependencies" -> List(dependencies)]

\* the parsed content of a chart file that has the key dependencies only
ChartOverlay(dependencies) ==
    [key \in {"dependencies"} |-> List(dependencies)]

\* the parsed content of a chart file that has the key version only
ChartVersionOnly(chart_version) ==
    [key \in {"version"} |-> Scalar(chart_version)]

\* HelmChart(name, version, dependencies)
HelmChart(name, chart_version, dependencies) ==
    [name |-> name, version |-> chart_version, dependencies |-> dependencies]

\* A chart where Chart.yaml wins over the file of the environment.
MutFromChartFileBaseWins(chart_file, env_specific_chart, env) ==
    LET chart_files == (IF env # "" /\ env_specific_chart.exists
                        THEN <<env_specific_chart>> ELSE <<>>) \o <<chart_file>>
        merged_chart == deep_merge([i \in DOMAIN chart_files |-> chart_files[i].values])
    IN HelmChart(merged_chart["name"].val[1], merged_chart["version"].val[1],
                 IF "dependencies" \in DOMAIN merged_chart
                 THEN [i \in DOMAIN merged_chart["dependencies"].val |->
                          Dep(merged_chart["dependencies"].val[i].name,
                              merged_chart["dependencies"].val[i].version)]
                 ELSE <<>>)

\* HelmChart.from_chart_file: Chart.yaml, then Chart-{env}.yaml if there is
\* an env and the file exists, parsed and deep-merged
from_chart_file(chart_file, env_specific_chart, env) ==
    LET chart_files == <<chart_file>>
                       \o (IF env # "" /\ env_specific_chart.exists
                           THEN <<env_specific_chart>> ELSE <<>>)
        charts_data == [i \in DOMAIN chart_files |-> chart_files[i].values]
        merged_chart == deep_merge(charts_data)
    IN HelmChart(merged_chart["name"].val[1], merged_chart["version"].val[1],
                 IF "dependencies" \in DOMAIN merged_chart
                 THEN [i \in DOMAIN merged_chart["dependencies"].val |->
                          Dep(merged_chart["dependencies"].val[i].name,
                              merged_chart["dependencies"].val[i].version)]
                 ELSE <<>>)

\* ServiceInstanceConfig.helm_chart: from_chart_file(path / "Chart.yaml", env)
helm_chart(charts, env) == from_chart_file(charts["base"], charts[env], env)

\* the candidate_files of an instance i of env
CandidateNames(env) ==
    IF env = "dev"
    THEN <<"values.yaml", "values-dev.yaml", "values-dev-i.yaml">>
    ELSE <<"values.yaml", "values-prod.yaml", "values-prod-i.yaml">>

\* ServiceInstanceConfig.values_files for a directory whose existing values
\* files are the domain of headers
ExistingValuesFiles(headers, env) ==
    SelectSeq(CandidateNames(env), LAMBDA file : file \in DOMAIN headers)

\* the instance __main__ validates: its merged chart and the headers of its
\* values files as they are now
CurrentInstance(charts, headers, env) ==
    LET names == ExistingValuesFiles(headers, env)
    IN Instance("svc", helm_chart(charts, env).dependencies,
                [a \in DOMAIN names |-> headers[names[a]]], <<>>, "none")

RECURSIVE MainLoop(_, _, _, _)
\* the for loop of __main__ from the i-th instance on: the headers it
\* leaves, errors_found, what it used and reported for each instance, and
\* the headers it wrote
MainLoop(charts, headers, order, i) ==
    IF i > Len(order)
    THEN [headers |-> headers, errors_found |-> FALSE, entries |-> <<>>, writes |-> <<>>]
    ELSE LET env == order[i]
             names == ExistingValuesFiles(headers, env)
             inst == CurrentInstance(charts, headers, env)
             result == validate_configuration(inst, {}, 200)
             synced == IF result.errors # <<>>
                       THEN sync_values_files_schema_header_version(inst) ELSE inst
             written == SelectSeq([a \in DOMAIN names |->
                                      [file |-> names[a], version |-> synced.headers[a],
                                       changed |-> synced.headers[a] # inst.headers[a]]],
                                  LAMBDA w : w.changed)
             after == [file \in DOMAIN headers |->
                          IF \E a \in DOMAIN names : names[a] = file
                          THEN synced.headers[CHOOSE a \in DOMAIN names : names[a] = file]
                          ELSE headers[file]]
             rest == MainLoop(charts, after, order, i + 1)
         IN [headers |-> rest.headers,
             errors_found |-> ErrorsFoundAfter(rest.errors_found, result.errors),
             entries |-> <<[env |-> env,
                            version |-> platform_managed_chart_version(inst.chart),
                            errors |-> result.errors]>> \o rest.entries,
             writes |-> written \o rest.writes]

NoRun == [exit |-> NotExited, entries |-> <<>>]

\* the versions the charts of the directory declare
RepoVersions == {<<0, 1, 35>>, <<0, 1, 157>>}

\* Chart.yaml: with the managed chart, with another dependency only, or
\* without the key dependencies
BaseCharts ==
    {Present(ChartFile("svc", <<1, 0, 0>>, <<Dep(PMC, v)>>)) : v \in RepoVersions}
    \cup {Present(ChartFile("svc", <<1, 0, 0>>, <<Dep("other", <<0, 2, 0>>)>>)),
          Present([key \in {"name", "version"} |-> Scalar(<<1, 0, 0>>)])}

\* Chart-<env>.yaml: absent, or with its own dependencies, or with a version
\* of the chart only
EnvCharts ==
    {Absent}
    \cup {Present(ChartOverlay(<<Dep(PMC, v)>>)) : v \in RepoVersions}
    \cup {Present(ChartOverlay(<<Dep("other", <<0, 2, 0>>)>>)),
          Present(ChartVersionOnly(<<1, 0, 1>>))}

NoCharts == [file \in {"base", "dev", "prod"} |-> Absent]

ValuesFileNames ==
    {"values.yaml", "values-dev.yaml", "values-prod.yaml",
     "values-dev-i.yaml", "values-prod-i.yaml"}

\* the headers the values files of the directory can have
RepoHeaders == {NoVersion} \cup RepoVersions

\* the values files of a directory and their headers: values.yaml with any
\* header, the files of an environment with 0.1.35, the files of an instance
\* with 0.1.35 or without a header
ValuesHeaders ==
    {headers \in UNION {[names -> RepoHeaders] : names \in SUBSET ValuesFileNames} :
        /\ \A file \in DOMAIN headers \cap {"values-dev.yaml", "values-prod.yaml"} :
             headers[file] = <<0, 1, 35>>
        /\ \A file \in DOMAIN headers \cap {"values-dev-i.yaml", "values-prod-i.yaml"} :
             headers[file] \in {NoVersion, <<0, 1, 35>>}}

\* the instances the glob finds: one for each values-<env>-i.yaml
Discovered(headers) ==
    {order \in {<<>>, <<"dev">>, <<"prod">>, <<"dev", "prod">>, <<"prod", "dev">>} :
        /\ \A a \in DOMAIN order : CandidateNames(order[a])[3] \in DOMAIN headers
        /\ \A env \in {"dev", "prod"} :
             CandidateNames(env)[3] \in DOMAIN headers =>
                 \E a \in DOMAIN order : order[a] = env}

\* Bound: __main__ is run at most MaxRuns times on the directory.
MaxRuns == 3

\* one run of __main__ on the directory, with its repairs
Main ==
    /\ runs < MaxRuns
    /\ LET run == MainLoop(chart_yaml, values_headers, glob_order, 1)
       IN /\ values_headers' = run.headers
          /\ last_run' = [exit |-> ExitCodeOf(run.errors_found), entries |-> run.entries]
          /\ writes' = writes \o run.writes
    /\ runs' = runs + 1
    /\ UNCHANGED <<chart_yaml, glob_order, mergeVars, headerVars, runVars, checkVars,
                   uniqueVars, pathVars>>

RepoNext == Main

\* the dependencies of a parsed chart file, none if it has no such key
DependenciesOf(file) ==
    IF "dependencies" \in DOMAIN file.values THEN file.values["dependencies"].val
    ELSE <<>>

\* the version of the first dependency named platform-managed-chart, if any
ManagedVersion(dependencies) ==
    LET managed == {i \in DOMAIN dependencies : dependencies[i].name = PMC}
    IN IF managed = {} THEN NoVersion
       ELSE dependencies[CHOOSE i \in managed : \A j \in managed : i <= j].version

\* the version of the deep merge of Chart.yaml and Chart-<env>.yaml: the
\* list of dependencies of the env file replaces the list of Chart.yaml
MergedChartVersion(env) ==
    IF chart_yaml[env].exists /\ "dependencies" \in DOMAIN chart_yaml[env].values
    THEN ManagedVersion(DependenciesOf(chart_yaml[env]))
    ELSE ManagedVersion(DependenciesOf(chart_yaml["base"]))

\* C25: the managed-chart version used for an instance of environment E is
\* the one of the deep merge of Chart.yaml and Chart-E.yaml, the environment
\* file winning, when Chart-E.yaml exists, and the one of Chart.yaml alone
\* otherwise; the file of another environment does not affect it.
C25_EnvChartVersion ==
    \A a \in DOMAIN last_run.entries :
        last_run.entries[a].version = MergedChartVersion(last_run.entries[a].env)

\* C25 witness: Chart.yaml declares 0.1.35, Chart-dev.yaml 0.1.157 and
\* Chart-prod.yaml does not exist; a run used 0.1.157 for the dev instance
\* and 0.1.35 for the prod instance.
C25_Witness ==
    /\ runs > 0
    /\ ManagedVersion(DependenciesOf(chart_yaml["base"])) = <<0, 1, 35>>
    /\ chart_yaml["dev"].exists /\ ~chart_yaml["prod"].exists
    /\ \E a, b \in DOMAIN last_run.entries :
         /\ last_run.entries[a].env = "dev"
         /\ last_run.entries[a].version = <<0, 1, 157>>
         /\ last_run.entries[b].env = "prod"
         /\ last_run.entries[b].version = <<0, 1, 35>>

\* the header errors the last run reported
HeaderErrorsReported ==
    {a \in DOMAIN last_run.entries :
        \E e \in DOMAIN last_run.entries[a].errors :
            last_run.entries[a].errors[e].message = HeaderMessage}

\* a file's header was written with one version, then another, then the
\* first again
Alternates ==
    \E a, b, c \in DOMAIN writes :
        /\ a < b /\ b < c
        /\ writes[a].file = writes[b].file /\ writes[b].file = writes[c].file
        /\ writes[a].version = writes[c].version
        /\ writes[a].version # writes[b].version

\* C30: repair converges.  On a directory whose only errors are header
\* errors, a run with its repairs is followed by a run that reports no
\* header error and exits 0, and repeated runs never alternate the header of
\* a file between two versions.
C30_RepairConverges ==
    /\ runs >= 2 => (HeaderErrorsReported = {} /\ last_run.exit = 0)
    /\ ~Alternates

(***************************************************************************)
(* The path stack.  PathTrackingValidator.descend is a generator: when the *)
(* validator starts to iterate it, it appends its path argument to         *)
(* _current_path, then yields the errors of the descent, and its finally  *)
(* clause pops the list when the descent is exhausted, when an exception   *)
(* passes through it, and when the generator is closed because its         *)
(* consumer dropped it.  The validator descends with a key or an index     *)
(* into a child, and with path=None into another schema for the same node. *)
(* Descents are nested: the generators that run form a chain, and only the *)
(* innermost one runs.                                                     *)
(***************************************************************************)
\* the path argument of a descent: a key, an index, or None
PathArguments == {<<PMC>>, <<"services">>, <<"app">>, <<"0">>, None}

\* Bound: at most MaxDepth descents are nested.
MaxDepth == 4

\* outer_self._current_path.append(path)
Push(stack, path) == Append(stack, path)

RECURSIVE Pop(_, _)
\* outer_self._current_path.pop(), n times
Pop(stack, n) ==
    IF n = 0 THEN stack ELSE Pop(SubSeq(stack, 1, Len(stack) - 1), n - 1)

\* A descend whose pop is not in a finally clause: it is reached only when
\* the descent is exhausted.
MutPopOnReturnOnly(stack, n, exhausted) ==
    IF exhausted THEN Pop(stack, n) ELSE stack

\* the pops of n descend generators that end, each in its finally clause
PopInFinally(stack, n, exhausted) == Pop(stack, n)

\* the node after the descents from the level-th on have ended
NodeAbove(level) ==
    SelectSeq(SubSeq(descents, 1, level - 1), LAMBDA path : path # None)

\* the validator iterates descend(instance, schema, path): the generator
\* starts, pushes, and goes on into the node
Descend ==
    /\ ppc = "validating" /\ ~suspended
    /\ Len(descents) < MaxDepth
    /\ \E path \in PathArguments :
         /\ path_stack' = Push(path_stack, path)
         /\ descents' = Append(descents, path)
         /\ node' = IF path = None THEN node ELSE Append(node, path)
    /\ UNCHANGED <<suspended, ppc, mergeVars, headerVars, runVars, checkVars,
                   uniqueVars, repoVars>>

\* the innermost descent yields an error, which goes up the chain of yield
\* from to the consumer of iter_errors; every generator is suspended
YieldError ==
    /\ ppc = "validating" /\ ~suspended
    /\ descents # <<>>
    /\ suspended' = TRUE
    /\ UNCHANGED <<path_stack, descents, node, ppc, mergeVars, headerVars, runVars,
                   checkVars, uniqueVars, repoVars>>

\* the consumer asks for the next error: the innermost descent goes on
Resume ==
    /\ ppc = "validating" /\ suspended
    /\ suspended' = FALSE
    /\ UNCHANGED <<path_stack, descents, node, ppc, mergeVars, headerVars, runVars,
                   checkVars, uniqueVars, repoVars>>

\* the innermost descent is exhausted: its finally clause pops
Return ==
    /\ ppc = "validating" /\ ~suspended
    /\ descents # <<>>
    /\ path_stack' = PopInFinally(path_stack, 1, TRUE)
    /\ descents' = SubSeq(descents, 1, Len(descents) - 1)
    /\ node' = NodeAbove(Len(descents))
    /\ UNCHANGED <<suspended, ppc, mergeVars, headerVars, runVars, checkVars,
                   uniqueVars, repoVars>>

\* a check raises in the innermost descent: the exception passes through
\* every generator of the chain, innermost first, and leaves iter_errors
Raise ==
    /\ ppc = "validating" /\ ~suspended
    /\ descents # <<>>
    /\ path_stack' = PopInFinally(path_stack, Len(descents), FALSE)
    /\ descents' = <<>>
    /\ node' = <<>>
    /\ ppc' = "raised"
    /\ UNCHANGED <<suspended, mergeVars, headerVars, runVars, checkVars,
                   uniqueVars, repoVars>>

\* the consumer of the level-th descent drops it after an error (is_valid
\* takes the first error only): the generator is closed, GeneratorExit is
\* thrown into the chain below it, innermost first, and the validator goes
\* on above it
Abandon ==
    /\ ppc = "validating" /\ suspended
    /\ \E level \in 1..Len(descents) :
         /\ path_stack' = PopInFinally(path_stack, Len(descents) - level + 1, FALSE)
         /\ descents' = SubSeq(descents, 1, level - 1)
         /\ node' = NodeAbove(level)
    /\ suspended' = FALSE
    /\ UNCHANGED <<ppc, mergeVars, headerVars, runVars, checkVars, uniqueVars, repoVars>>

\* iter_errors is exhausted
Finish ==
    /\ ppc = "validating" /\ ~suspended
    /\ descents = <<>>
    /\ ppc' = "finished"
    /\ UNCHANGED <<path_stack, descents, node, suspended, mergeVars, headerVars,
                   runVars, checkVars, uniqueVars, repoVars>>

PathNext == Descend \/ YieldError \/ Resume \/ Return \/ Raise \/ Abandon \/ Finish

\* C27: at every moment of a validation the stack of the validator, its
\* absent entries removed, is the sequence of keys and indices from the root
\* to the node visited; it holds one entry for each descent that is running,
\* the entry that descent pushed, also after descents ended by an exception
\* or were abandoned; and it is empty when the validation is over.
C27_PathStack ==
    /\ get_current_path(path_stack) = node
    /\ path_stack = descents
    /\ ppc \in {"finished", "raised"} => path_stack = <<>>

\* C27 witness: at platform-managed-chart.services.app, reached through a
\* descent with path=None, whose entry is on the stack and not in the path.
C27_Witness ==
    /\ ppc = "validating"
    /\ path_stack = <<<<PMC>>, None, <<"services">>, <<"app">>>>
    /\ node = <<<<PMC>>, <<"services">>, <<"app">>>>

\* C27 witness of the exception: the validation was left by an exception.
C27_RaisedWitness == ppc = "raised" /\ path_stack = <<>>

(***************************************************************************)
(* The specifications.                                                     *)
(***************************************************************************)
\* One instance's candidate values files; nothing else is running.
MergeInit ==
    /\ layers \in [1..3 -> LayerFiles]
    /\ mpc = "start"
    /\ merged = NoResults
    \* the other scenarios are idle
    /\ text = <<>>
    /\ version = None
    /\ hsvCache = NotCached
    /\ calls = 0
    /\ textBefore = <<>>
    /\ textAfterFirst = <<>>
    /\ objects = 0
    /\ call = NoCall
    /\ cpc = "idle"
    /\ yielded = <<>>
    /\ called = <<>>
    /\ path_stack = <<>>
    /\ descents = <<>>
    /\ node = <<>>
    /\ suspended = FALSE
    /\ ppc = "idle"
    /\ chart_yaml = NoCharts
    /\ values_headers = <<>>
    /\ glob_order = <<>>
    /\ runs = 0
    /\ last_run = NoRun
    /\ writes = <<>>
    /\ globbed = <<>>
    /\ upc = "idle"
    /\ unique_errors = <<>>
    /\ instances = <<>>
    /\ pc = "idle"
    /\ cur = 0
    /\ errors = <<>>
    /\ errors_found = FALSE
    /\ exitCode = NotExited
    /\ cache = {}
    /\ results = <<>>
    /\ log = <<>>

\* One values file and one ValuesFile object for it; nothing else is running.
HeaderInit ==
    /\ text \in FileTexts
    /\ version \in ArgVersions
    /\ hsvCache = NotCached
    /\ calls = 0
    /\ textBefore = text
    /\ textAfterFirst = text
    /\ objects = 1
    /\ call = NoCall
    /\ cpc = "idle"
    /\ yielded = <<>>
    /\ called = <<>>
    /\ path_stack = <<>>
    /\ descents = <<>>
    /\ node = <<>>
    /\ suspended = FALSE
    /\ ppc = "idle"
    /\ chart_yaml = NoCharts
    /\ values_headers = <<>>
    /\ glob_order = <<>>
    /\ runs = 0
    /\ last_run = NoRun
    /\ writes = <<>>
    /\ globbed = <<>>
    /\ upc = "idle"
    /\ unique_errors = <<>>
    \* the other scenarios are idle
    /\ layers = [i \in 1..3 |-> Absent]
    /\ mpc = "idle"
    /\ merged = NoResults
    /\ instances = <<>>
    /\ pc = "idle"
    /\ cur = 0
    /\ errors = <<>>
    /\ errors_found = FALSE
    /\ exitCode = NotExited
    /\ cache = {}
    /\ results = <<>>
    /\ log = <<>>

\* __main__ starts on a repository; nothing else is running.
RunInit ==
    /\ instances \in UNION {[1..n -> Instances] : n \in 1..MaxInstances}
    /\ pc = "loop"
    /\ cur = 0
    /\ errors = <<>>
    /\ errors_found = FALSE
    /\ exitCode = NotExited
    /\ cache = {}
    /\ results = <<>>
    /\ log = <<>>
    \* the other scenarios are idle
    /\ layers = [i \in 1..3 |-> Absent]
    /\ mpc = "idle"
    /\ merged = NoResults
    /\ text = <<>>
    /\ version = None
    /\ hsvCache = NotCached
    /\ calls = 0
    /\ textBefore = <<>>
    /\ textAfterFirst = <<>>
    /\ objects = 0
    /\ call = NoCall
    /\ cpc = "idle"
    /\ yielded = <<>>
    /\ called = <<>>
    /\ path_stack = <<>>
    /\ descents = <<>>
    /\ node = <<>>
    /\ suspended = FALSE
    /\ ppc = "idle"
    /\ chart_yaml = NoCharts
    /\ values_headers = <<>>
    /\ glob_order = <<>>
    /\ runs = 0
    /\ last_run = NoRun
    /\ writes = <<>>
    /\ globbed = <<>>
    /\ upc = "idle"
    /\ unique_errors = <<>>

\* __main__ on a repository of one instance, whose validation is examined in
\* detail; nothing else is running.
ValidateInit ==
    /\ instances \in {<<inst>> : inst \in DetailedInstances}
    /\ pc = "loop"
    /\ cur = 0
    /\ errors = <<>>
    /\ errors_found = FALSE
    /\ exitCode = NotExited
    /\ cache = {}
    /\ results = <<>>
    /\ log = <<>>
    \* the other scenarios are idle
    /\ layers = [i \in 1..3 |-> Absent]
    /\ mpc = "idle"
    /\ merged = NoResults
    /\ text = <<>>
    /\ version = None
    /\ hsvCache = NotCached
    /\ calls = 0
    /\ textBefore = <<>>
    /\ textAfterFirst = <<>>
    /\ objects = 0
    /\ call = NoCall
    /\ cpc = "idle"
    /\ yielded = <<>>
    /\ called = <<>>
    /\ path_stack = <<>>
    /\ descents = <<>>
    /\ node = <<>>
    /\ suspended = FALSE
    /\ ppc = "idle"
    /\ chart_yaml = NoCharts
    /\ values_headers = <<>>
    /\ glob_order = <<>>
    /\ runs = 0
    /\ last_run = NoRun
    /\ writes = <<>>
    /\ globbed = <<>>
    /\ upc = "idle"
    /\ unique_errors = <<>>

\* One call of one check method; nothing else is running.
ChecksInit ==
    /\ call \in ServiceNameCalls \cup ServiceKeysCalls
                \cup TopicNameCalls \cup MaxLocalTopicBytesCalls
                \cup ForbiddenEnvironmentVariablesCalls
                \cup AdditionalChecksCalls
    /\ cpc = "start"
    /\ yielded = <<>>
    /\ called = <<>>
    /\ path_stack = <<>>
    /\ descents = <<>>
    /\ node = <<>>
    /\ suspended = FALSE
    /\ ppc = "idle"
    /\ chart_yaml = NoCharts
    /\ values_headers = <<>>
    /\ glob_order = <<>>
    /\ runs = 0
    /\ last_run = NoRun
    /\ writes = <<>>
    /\ globbed = <<>>
    /\ upc = "idle"
    /\ unique_errors = <<>>
    \* the other scenarios are idle
    /\ layers = [i \in 1..3 |-> Absent]
    /\ mpc = "idle"
    /\ merged = NoResults
    /\ text = <<>>
    /\ version = None
    /\ hsvCache = NotCached
    /\ calls = 0
    /\ textBefore = <<>>
    /\ textAfterFirst = <<>>
    /\ objects = 0
    /\ instances = <<>>
    /\ pc = "idle"
    /\ cur = 0
    /\ errors = <<>>
    /\ errors_found = FALSE
    /\ exitCode = NotExited
    /\ cache = {}
    /\ results = <<>>
    /\ log = <<>>

SpecMerge == MergeInit /\ [][MergeNext]_vars

SpecHeader == HeaderInit /\ [][HeaderNext]_vars

SpecRun == RunInit /\ [][RunNext]_vars

SpecValidate == ValidateInit /\ [][RunNext]_vars

SpecChecks == ChecksInit /\ [][ChecksNext]_vars


\* One call of validate_unique_service_names on one repository.
UniqueInit ==
    /\ globbed \in Globs
    /\ upc = "start"
    /\ unique_errors = <<>>
    \* the other scenarios are idle
    /\ call = NoCall
    /\ cpc = "idle"
    /\ yielded = <<>>
    /\ called = <<>>
    /\ path_stack = <<>>
    /\ descents = <<>>
    /\ node = <<>>
    /\ suspended = FALSE
    /\ ppc = "idle"
    /\ chart_yaml = NoCharts
    /\ values_headers = <<>>
    /\ glob_order = <<>>
    /\ runs = 0
    /\ last_run = NoRun
    /\ writes = <<>>
    /\ layers = [i \in 1..3 |-> Absent]
    /\ mpc = "idle"
    /\ merged = NoResults
    /\ text = <<>>
    /\ version = None
    /\ hsvCache = NotCached
    /\ calls = 0
    /\ textBefore = <<>>
    /\ textAfterFirst = <<>>
    /\ objects = 0
    /\ instances = <<>>
    /\ pc = "idle"
    /\ cur = 0
    /\ errors = <<>>
    /\ errors_found = FALSE
    /\ exitCode = NotExited
    /\ cache = {}
    /\ results = <<>>
    /\ log = <<>>

SpecUnique == UniqueInit /\ [][UniqueNext]_vars


\* A service directory before the first run.
RepoInit ==
    /\ chart_yaml \in {[file \in {"base", "dev", "prod"} |->
                          CASE file = "base" -> b [] file = "dev" -> d [] file = "prod" -> e] :
                        b \in BaseCharts, d \in EnvCharts, e \in EnvCharts}
    /\ values_headers \in ValuesHeaders
    /\ glob_order \in Discovered(values_headers)
    /\ runs = 0
    /\ last_run = NoRun
    /\ writes = <<>>
    \* the other scenarios are idle
    /\ globbed = <<>>
    /\ upc = "idle"
    /\ unique_errors = <<>>
    /\ call = NoCall
    /\ cpc = "idle"
    /\ yielded = <<>>
    /\ called = <<>>
    /\ path_stack = <<>>
    /\ descents = <<>>
    /\ node = <<>>
    /\ suspended = FALSE
    /\ ppc = "idle"
    /\ layers = [i \in 1..3 |-> Absent]
    /\ mpc = "idle"
    /\ merged = NoResults
    /\ text = <<>>
    /\ version = None
    /\ hsvCache = NotCached
    /\ calls = 0
    /\ textBefore = <<>>
    /\ textAfterFirst = <<>>
    /\ objects = 0
    /\ instances = <<>>
    /\ pc = "idle"
    /\ cur = 0
    /\ errors = <<>>
    /\ errors_found = FALSE
    /\ exitCode = NotExited
    /\ cache = {}
    /\ results = <<>>
    /\ log = <<>>

SpecRepo == RepoInit /\ [][RepoNext]_vars


\* A validator before iter_errors: __init__ sets _current_path to [].
PathInit ==
    /\ path_stack = <<>>
    /\ descents = <<>>
    /\ node = <<>>
    /\ suspended = FALSE
    /\ ppc = "validating"
    \* the other scenarios are idle
    /\ chart_yaml = NoCharts
    /\ values_headers = <<>>
    /\ glob_order = <<>>
    /\ runs = 0
    /\ last_run = NoRun
    /\ writes = <<>>
    /\ globbed = <<>>
    /\ upc = "idle"
    /\ unique_errors = <<>>
    /\ call = NoCall
    /\ cpc = "idle"
    /\ yielded = <<>>
    /\ called = <<>>
    /\ layers = [i \in 1..3 |-> Absent]
    /\ mpc = "idle"
    /\ merged = NoResults
    /\ text = <<>>
    /\ version = None
    /\ hsvCache = NotCached
    /\ calls = 0
    /\ textBefore = <<>>
    /\ textAfterFirst = <<>>
    /\ objects = 0
    /\ instances = <<>>
    /\ pc = "idle"
    /\ cur = 0
    /\ errors = <<>>
    /\ errors_found = FALSE
    /\ exitCode = NotExited
    /\ cache = {}
    /\ results = <<>>
    /\ log = <<>>

SpecPath == PathInit /\ [][PathNext]_vars

====
